---- MODULE Spec2Model ----
(***************************************************************************)
(* Model of the London Fire Brigade response-time dashboard: the cached    *)
(* loader (data_loader.load_data) and the filter / empty-check /           *)
(* first-pump deduplication / KPI pipeline that every page script runs on  *)
(* each rerun.                                                             *)
(*                                                                         *)
(* Encodings.                                                              *)
(*  - A DataFrame is a record [cols, rows]: the set of column labels and   *)
(*    the sequence of rows; a row is a function from column label to cell. *)
(*    Every row carries its pandas index label in the field idx.           *)
(*  - A nullable cell (NaN / None) is the empty tuple <<>>, a present      *)
(*    value v is <<v>>.                                                    *)
(*  - A float result is an exact fraction [num, den]; den = 0 is NaN.      *)
(*    Binary floating-point rounding is not modelled.                      *)
(*  - The year selectbox value "All" is the empty tuple, a year y is <<y>> *)
(*    (years are integers in the data, "All" is a string).                 *)
(***************************************************************************)
EXTENDS Integers, Sequences, FiniteSets, TLC

VARIABLES
    file,       \* content of Data/lfb_streamlit.parquet (an input, never written)
    tieRank,    \* order in which this build's sort_values leaves rows with equal keys
    cache,      \* st.cache_data store of load_data: <<>> or <<frame>>
    reads,      \* number of pd.read_parquet calls made so far
    boundaryReads, \* number of gpd.read_file calls on the borough shapefile so far
    runsLeft,   \* per session: script reruns still to be explored
    view        \* per session: what its last script run computed and rendered

vars == <<file, tieRank, cache, reads, boundaryReads, runsLeft, view>>

---------------------------------------------------------------------------
(* Bounds of the exploration *)

MaxRows == 3
MaxFilterRows == 4
MaxIncidents == 4
MaxRuns == 2
MaxMonthChoice == 3
MaxColumnRows == 2
MaxRerunRows == 1
MaxGeoRows == 3
MaxDriverRows == 3
MaxDelayRows == 5
MaxBandRows == 4

Sessions == {"s1", "s2"}

---------------------------------------------------------------------------
(* Nullable cells and exact fractions *)

None == <<>>
Some(v) == <<v>>
IsNull(x) == x = <<>>

NaN == [num |-> 0, den |-> 0]
Rat(n, d) == [num |-> n, den |-> d]
IsNaN(a) == a.den = 0
RatEq(a, b) == a.den # 0 /\ b.den # 0 /\ a.num * b.den = b.num * a.den
RatLe(a, b) == a.den # 0 /\ b.den # 0 /\ a.num * b.den <= b.num * a.den
RatLt(a, b) == a.den # 0 /\ b.den # 0 /\ a.num * b.den < b.num * a.den
RatAdd(a, b) ==
    IF a.den = 0 \/ b.den = 0 THEN NaN
    ELSE Rat(a.num * b.den + b.num * a.den, a.den * b.den)
RatSub(a, b) ==
    IF a.den = 0 \/ b.den = 0 THEN NaN
    ELSE Rat(a.num * b.den - b.num * a.den, a.den * b.den)
RatScale(a, k) == IF a.den = 0 THEN NaN ELSE Rat(a.num * k, a.den)
RatOver(a, k) == IF a.den = 0 THEN NaN ELSE Rat(a.num, a.den * k)

RECURSIVE GCD(_, _)
GCD(a, b) == IF b = 0 THEN a ELSE GCD(b, a % b)

Abs(n) == IF n < 0 THEN -n ELSE n

\* the fraction in lowest terms, with a positive denominator
Reduce(a) ==
    IF a.den = 0 THEN NaN
    ELSE LET g == GCD(Abs(a.num), Abs(a.den))
             sign == IF a.den < 0 THEN -1 ELSE 1
         IN  Rat(sign * (a.num \div g), sign * (a.den \div g))

RatMul(a, b) ==
    IF a.den = 0 \/ b.den = 0 THEN NaN ELSE Reduce(Rat(a.num * b.num, a.den * b.den))

\* a / b in floating point, where 0 / 0 is NaN
RatDiv(a, b) ==
    IF a.den = 0 \/ b.den = 0 \/ b.num = 0 THEN NaN
    ELSE Reduce(Rat(a.num * b.den, a.den * b.num))

RECURSIVE RatSum(_)
RatSum(seq) ==
    IF seq = <<>> THEN Rat(0, 1) ELSE Reduce(RatAdd(Head(seq), RatSum(Tail(seq))))

---------------------------------------------------------------------------
(* Sequence helpers *)

\* The elements of seq at the positions in keep, in their order in seq.
AtPositions(seq, keep) ==
    [p \in 1..Cardinality(keep) |->
        seq[CHOOSE i \in keep : Cardinality({j \in keep : j < i}) = p - 1]]

\* seq ordered by the strict total order Less on its positions.
OrderBy(seq, Less(_, _)) ==
    [p \in 1..Len(seq) |->
        seq[CHOOSE i \in 1..Len(seq) :
                Cardinality({j \in 1..Len(seq) : Less(j, i)}) = p - 1]]

RECURSIVE Flatten(_)
Flatten(seqs) == IF seqs = <<>> THEN <<>> ELSE Head(seqs) \o Flatten(Tail(seqs))

RECURSIVE SumSeq(_)
SumSeq(seq) == IF seq = <<>> THEN 0 ELSE Head(seq) + SumSeq(Tail(seq))

---------------------------------------------------------------------------
(* DataFrame operations (pandas) *)

NoFrame == [cols |-> {}, rows |-> <<>>]

\* df.empty
IsEmptyFrame(frame) == Len(frame.rows) = 0

\* df[mask]: a new frame with the rows whose mask is True, in order
Mask(frame, Keep(_)) == [cols |-> frame.cols, rows |-> SelectSeq(frame.rows, Keep)]

\* frame[col] = f(row): column assignment on the frame object
WithColumn(frame, col, F(_)) ==
    [cols |-> frame.cols \cup {col},
     rows |-> [k \in 1..Len(frame.rows) |->
                  [c \in frame.cols \cup {col} |->
                      IF c = col THEN F(frame.rows[k]) ELSE frame.rows[k][c]]]]

\* frame[col] as a sequence of cells
Column(frame, col) == [k \in 1..Len(frame.rows) |-> frame.rows[k][col]]

\* the non-null values of a series, in order (skipna)
NonNull(series) ==
    LET present == SelectSeq(series, LAMBDA c : ~IsNull(c))
    IN  [k \in 1..Len(present) |-> present[k][1]]

\* the values of a numeric series in ascending order
SortedValues(vals) ==
    OrderBy(vals, LAMBDA j, i : vals[j] < vals[i] \/ (vals[j] = vals[i] /\ j < i))

\* a median that takes the lower of the two central values of an even series
median_lower(series) ==
    LET v == SortedValues(NonNull(series))
        n == Len(v)
    IN  IF n = 0 THEN NaN ELSE Rat(v[(n + 1) \div 2], 1)

\* series.median(): NaN cells skipped; NaN when nothing is left
median(series) ==
    LET v == SortedValues(NonNull(series))
        n == Len(v)
    IN  IF n = 0 THEN NaN
        ELSE IF n % 2 = 1 THEN Rat(v[(n + 1) \div 2], 1)
        ELSE Rat(v[n \div 2] + v[n \div 2 + 1], 2)

\* series.quantile(0.90): linear interpolation between the order statistics
\* around position 0.9 * (n - 1)
quantile90(series) ==
    LET v == SortedValues(NonNull(series))
        n == Len(v)
        k == 9 * (n - 1)
        lo == k \div 10 + 1
        f == k % 10
    IN  IF n = 0 THEN NaN
        ELSE IF f = 0 THEN Rat(v[lo], 1)
        ELSE Rat(10 * v[lo] + f * (v[lo + 1] - v[lo]), 10)

\* series.mean() of a numeric series (skipna)
mean(series) ==
    LET v == NonNull(series)
    IN  IF Len(v) = 0 THEN NaN ELSE Rat(SumSeq(v), Len(v))

\* (boolean series).mean() * 100: every row counts in the denominator
MeanPct(frame, Flag(_)) ==
    IF Len(frame.rows) = 0 THEN NaN
    ELSE Rat(100 * Len(SelectSeq(frame.rows, Flag)), Len(frame.rows))

\* a strict comparison in the place of <=
CellLe_strict(c, k) == ~IsNull(c) /\ c[1] < k

\* cell <= k and cell > k: a comparison with NaN is False
CellLe(c, k) == ~IsNull(c) /\ c[1] <= k
CellGt(c, k) == ~IsNull(c) /\ c[1] > k

\* frame.sort_values(by): ascending by the key; rows with equal keys come out
\* in the order the sort algorithm of the build leaves them (rank)
sort_values(frame, by, rank) ==
    [cols |-> frame.cols,
     rows |-> OrderBy(frame.rows,
                  LAMBDA j, i :
                      \/ frame.rows[j][by] < frame.rows[i][by]
                      \/ /\ frame.rows[j][by] = frame.rows[i][by]
                         /\ rank[frame.rows[j].idx] < rank[frame.rows[i].idx])]

\* a deduplication that keeps the last row of every value of subset
drop_duplicates_keep_last(frame, subset) ==
    [cols |-> frame.cols,
     rows |-> AtPositions(frame.rows,
                  {i \in 1..Len(frame.rows) :
                      \A j \in (i + 1)..Len(frame.rows) :
                          frame.rows[j][subset] # frame.rows[i][subset]})]

\* frame.drop_duplicates(subset): keep the first row of every value of subset
drop_duplicates(frame, subset) ==
    [cols |-> frame.cols,
     rows |-> AtPositions(frame.rows,
                  {i \in 1..Len(frame.rows) :
                      \A j \in 1..(i - 1) :
                          frame.rows[j][subset] # frame.rows[i][subset]})]

---------------------------------------------------------------------------
(* data_loader.py *)

Target6minSeconds == 360
ExtremeDelaySeconds == 600

MonthNames ==
    <<"January", "February", "March", "April", "May", "June",
      "July", "August", "September", "October", "November", "December">>

DayNames ==
    <<"Monday", "Tuesday", "Wednesday", "Thursday", "Friday", "Saturday", "Sunday">>

\* pd.read_parquet("Data/lfb_streamlit.parquet")
read_parquet == file

\* the body of load_data: the feature engineering on the frame just read
FeatureEngineering(raw) ==
    LET d1 == WithColumn(raw, "Year", LAMBDA r : r.CallDate.year)
        d2 == WithColumn(d1, "Month", LAMBDA r : r.CallDate.month)
        d3 == WithColumn(d2, "MonthName", LAMBDA r : MonthNames[r.CallDate.month])
        d4 == WithColumn(d3, "Weekday", LAMBDA r : DayNames[r.CallDate.dayofweek + 1])
    IN  WithColumn(d4, "FirstPump_Within_6min",
            LAMBDA r : CellLe(r.FirstPumpArriving_AttendanceTime, Target6minSeconds))

\* a loader whose cache hit hands out the cached frame less its first row
load_data_stale ==
    IF cache = None THEN FeatureEngineering(read_parquet)
    ELSE [cols |-> cache[1].cols, rows |-> Tail(cache[1].rows)]

\* @st.cache_data load_data(): the body runs on a cache miss only; every call
\* hands the caller its own copy of the cached frame
load_data == IF cache = None THEN FeatureEngineering(read_parquet) ELSE cache[1]

\* a loader without @st.cache_data: nothing is kept for the next call
CacheAfterLoad_uncached == None

CacheAfterLoad == Some(load_data)
ReadsAfterLoad == IF cache = None THEN reads + 1 ELSE reads

---------------------------------------------------------------------------
(* Sidebar filters *)

All == <<>>

\* a year selectbox that lists the years of the period, present or not
available_years_of_period(df) == {All, Some(2021), Some(2022)}

\* available_years = ["All"] + sorted(df["Year"].unique())
available_years(df) == {All} \cup {Some(df.rows[k].Year) : k \in 1..Len(df.rows)}

\* available_months = ["All"] + the twelve month names
available_months == <<"All">> \o MonthNames

\* the months a modelled user picks from: the first entries of the selectbox
MonthChoices == {available_months[k] : k \in 1..MaxMonthChoice}

\* incident_options = ["All"] + sorted(df["IncidentGroup"].dropna().unique())
incident_options(df) ==
    {"All"} \cup {df.rows[k].IncidentGroup[1] :
                    k \in {j \in 1..Len(df.rows) : ~IsNull(df.rows[j].IncidentGroup)}}

\* a year + month filter whose last branch tests the year only
YearMonthFilter_year_only(df, selected_year, selected_month) ==
    IF selected_year = All /\ selected_month = "All" THEN df
    ELSE IF selected_year = All
        THEN Mask(df, LAMBDA r : r.MonthName = selected_month)
    ELSE Mask(df, LAMBDA r : r.Year = selected_year[1])

\* Apply Filters, year + month: the four-branch if / elif
YearMonthFilter(df, selected_year, selected_month) ==
    IF selected_year = All /\ selected_month = "All" THEN df
    ELSE IF selected_year = All
        THEN Mask(df, LAMBDA r : r.MonthName = selected_month)
    ELSE IF selected_month = "All"
        THEN Mask(df, LAMBDA r : r.Year = selected_year[1])
    ELSE Mask(df, LAMBDA r : r.Year = selected_year[1] /\ r.MonthName = selected_month)

\* Apply Filters, incident type
IncidentTypeFilter(filtered_df, selected_incident) ==
    IF selected_incident # "All"
    THEN Mask(filtered_df, LAMBDA r : r.IncidentGroup = Some(selected_incident))
    ELSE filtered_df

\* filtered_df.sort_values("PumpOrder").drop_duplicates("IncidentNumber").copy()
FirstPumpOnly(filtered_df) ==
    drop_duplicates(sort_values(filtered_df, "PumpOrder", tieRank), "IncidentNumber")

---------------------------------------------------------------------------
(* What one script run leaves behind *)

NoKpi == [m \in {} |-> NaN]
NoGroups == [g \in {} |-> NoKpi]

\* the borough tables of the geographic page; no other page has them
NoTables ==
    [borough_df |-> <<>>, inner_outer_summary |-> NoKpi, regression |-> NoKpi,
     borough_decomp |-> NoGroups, hourly_components |-> NoGroups, map |-> <<>>,
     metric_choice |-> "none", final_delay |-> <<>>, borough_stats |-> <<>>,
     section_4 |-> NoKpi]

NoView ==
    [page |-> "none", selected_year |-> All, selected_month |-> "All",
     selected_incident |-> "All", previous |-> "none", outcome |-> "none",
     steps |-> {}, df |-> NoFrame, filtered_df |-> NoFrame,
     filtered_incidents |-> NoFrame, kpi |-> NoKpi, groups |-> NoGroups,
     tables |-> NoTables]

\* an empty check that also stops a run left with a single record
EmptyCheck_single(filtered_df) == Len(filtered_df.rows) <= 1

\* if filtered_df.empty: st.warning(...); st.stop()
EmptyCheck(filtered_df) == IsEmptyFrame(filtered_df)

\* the run ended by st.stop(): nothing after the empty check was executed
Stopped(df, filtered_df) ==
    [outcome |-> "EmptyResult", steps |-> {"load", "filter", "empty_check"},
     df |-> df, filtered_df |-> filtered_df,
     filtered_incidents |-> NoFrame, kpi |-> NoKpi, groups |-> NoGroups,
     tables |-> NoTables]

\* the run went through to the end of the script; objs are the frame objects
\* df and filtered_incidents as the script left them
Completed(objs, filtered_df, kpi, groups) ==
    [outcome |-> "Completed",
     steps |-> {"load", "filter", "empty_check", "dedup", "aggregate"},
     df |-> objs.df, filtered_df |-> filtered_df,
     filtered_incidents |-> objs.filtered_incidents, kpi |-> kpi, groups |-> groups,
     tables |-> NoTables]

\* the run died on an uncaught exception raised after the deduplication; kpi
\* and groups are what it had rendered by then
Raised(exception, objs, filtered_df, kpi, groups) ==
    [outcome |-> exception,
     steps |-> {"load", "filter", "empty_check", "dedup", "aggregate"},
     df |-> objs.df, filtered_df |-> filtered_df,
     filtered_incidents |-> objs.filtered_incidents, kpi |-> kpi, groups |-> groups,
     tables |-> NoTables]

\* filtered_incidents.groupby("IncGeo_BoroughName"): the keys (NaN keys dropped)
BoroughKeys(frame) ==
    {frame.rows[k].IncGeo_BoroughName[1] :
        k \in {j \in 1..Len(frame.rows) : ~IsNull(frame.rows[j].IncGeo_BoroughName)}}

\* the group of one key
BoroughGroup(frame, b) == Mask(frame, LAMBDA r : r.IncGeo_BoroughName = Some(b))

Attendance(frame) == Column(frame, "FirstPumpArriving_AttendanceTime")

\* frame["FirstPumpArriving_AttendanceTime"].median() / 60
median_response(frame) == RatOver(median(Attendance(frame)), 60)

\* frame["FirstPumpArriving_AttendanceTime"].quantile(0.90) / 60
p90_response(frame) == RatOver(quantile90(Attendance(frame)), 60)

\* (frame["FirstPumpArriving_AttendanceTime"] <= 360).mean() * 100
response_within_6min(frame) ==
    MeanPct(frame,
        LAMBDA r : CellLe(r.FirstPumpArriving_AttendanceTime, Target6minSeconds))

\* (frame["FirstPumpArriving_AttendanceTime"] > 600).mean() * 100
extreme_delay_rate(frame) ==
    MeanPct(frame,
        LAMBDA r : CellGt(r.FirstPumpArriving_AttendanceTime, ExtremeDelaySeconds))

\* frame["FirstPump_Within_6min"].mean() * 100
compliance_rate(frame) == MeanPct(frame, LAMBDA r : r.FirstPump_Within_6min)

\* the complement taken on the scale of fractions
above_target_of_one(within) == RatSub(Rat(1, 1), within)

\* above_target = 100 - response_within_6min
above_target(within) == RatSub(Rat(100, 1), within)

---------------------------------------------------------------------------
(* pages/1_Executive_Summary.py *)

Executive_Summary_KPIs(filtered_incidents) ==
    [total_incidents |-> Rat(Len(filtered_incidents.rows), 1),
     median_response |-> median_response(filtered_incidents),
     response_within_6min |-> response_within_6min(filtered_incidents),
     p90_response |-> p90_response(filtered_incidents),
     extreme_delay_rate |-> extreme_delay_rate(filtered_incidents),
     mean |-> RatOver(mean(Attendance(filtered_incidents)), 60),
     above_target |-> above_target(response_within_6min(filtered_incidents))]

Executive_Summary_Script(df, selected_year, selected_month, selected_incident) ==
    LET filtered_df ==
            IncidentTypeFilter(YearMonthFilter(df, selected_year, selected_month),
                               selected_incident)
        filtered_incidents == FirstPumpOnly(filtered_df)
    IN  IF EmptyCheck(filtered_df) THEN Stopped(df, filtered_df)
        ELSE Completed([df |-> df, filtered_incidents |-> filtered_incidents],
                       filtered_df, Executive_Summary_KPIs(filtered_incidents),
                       NoGroups)

---------------------------------------------------------------------------
(* pages/2_Incident_Composition.py *)

\* the options of the heatmap's Incident Type radio
heatmap_options == {"All", "False Alarm", "Special Service", "Fire"}

\* monthly_fire / monthly_false / monthly_special hold a month to take the
\* idxmax of: some incident of the type is in the frame
HasMonthlyCount(frame, type) ==
    \E k \in 1..Len(frame.rows) : frame.rows[k].IncidentGroup = Some(type)

\* the script gets as far as the heatmap radio
ReachesHeatmap(df, selected_year, selected_month) ==
    LET filtered_df == YearMonthFilter(df, selected_year, selected_month)
    IN  /\ ~EmptyCheck(filtered_df)
        /\ \A type \in heatmap_options \ {"All"} :
               HasMonthlyCount(FirstPumpOnly(filtered_df), type)

\* heatmap_df: filtered_incidents, or its rows of the selected incident type
heatmap_df(filtered_incidents, selected_incident_type) ==
    IF selected_incident_type = "All" THEN filtered_incidents
    ELSE Mask(filtered_incidents,
              LAMBDA r : r.IncidentGroup = Some(selected_incident_type))

Incident_Composition_Script(df, selected_year, selected_month, selected_incident_type) ==
    LET filtered_df == YearMonthFilter(df, selected_year, selected_month)
        objs == [df |-> df, filtered_incidents |-> FirstPumpOnly(filtered_df)]
        total_incidents == Rat(Len(objs.filtered_incidents.rows), 1)
    IN  IF EmptyCheck(filtered_df) THEN Stopped(df, filtered_df)
        \* monthly_fire.idxmax(), monthly_false.idxmax(), monthly_special.idxmax()
        ELSE IF ~ReachesHeatmap(df, selected_year, selected_month)
            THEN Raised("ValueError", objs, filtered_df,
                        [total_incidents |-> total_incidents], NoGroups)
        ELSE Completed(objs, filtered_df,
                 [total_incidents |-> total_incidents,
                  heatmap_incidents |->
                      Rat(Len(heatmap_df(objs.filtered_incidents,
                                         selected_incident_type).rows), 1)],
                 NoGroups)

---------------------------------------------------------------------------
(* pages/3_Response_Performance.py *)

IncidentTypes == {"False Alarm", "Special Service", "Fire"}

\* pd.cut(minutes, bins=[0, 6, 8, 10, inf], labels=..., right=True) on the
\* attendance cell in seconds: (0, 6], (6, 8], (8, 10], (10, inf) minutes
ResponseBand(att) ==
    IF IsNull(att) \/ att[1] <= 0 THEN None
    ELSE IF att[1] <= 6 * 60 THEN Some("<= 6 min")
    ELSE IF att[1] <= 8 * 60 THEN Some("6-8 min")
    ELSE IF att[1] <= 10 * 60 THEN Some("8-10 min")
    ELSE Some("> 10 min")

\* cell / 60 of a seconds column
Minutes(cell) == IF IsNull(cell) THEN NaN ELSE Rat(cell[1], 60)

\* the three column assignments of the stacked-bar section on one frame
WithResponseBands(frame) ==
    LET f1 == WithColumn(frame, "ResponseMinutes",
                  LAMBDA r : Minutes(r.FirstPumpArriving_AttendanceTime))
        f2 == WithColumn(f1, "ResponseBand",
                  LAMBDA r : ResponseBand(r.FirstPumpArriving_AttendanceTime))
    IN  WithColumn(f2, "IncidentGroup",
            LAMBDA r : IF ~IsNull(r.IncidentGroup) /\ r.IncidentGroup[1] \in IncidentTypes
                       THEN r.IncidentGroup ELSE None)

\* column assignments that also land on the loaded frame
Response_Performance_Columns_in_place(df, filtered_incidents) ==
    [df |-> WithResponseBands(df), filtered_incidents |-> WithResponseBands(filtered_incidents)]

\* filtered_incidents["ResponseMinutes"] = ..., ["ResponseBand"] = ...,
\* ["IncidentGroup"] = ...: the frame objects after the assignments
Response_Performance_Columns(df, filtered_incidents) ==
    [df |-> df, filtered_incidents |-> WithResponseBands(filtered_incidents)]

Response_Performance_KPIs(filtered_incidents) ==
    [median_response |-> median_response(filtered_incidents),
     response_within_6min |-> response_within_6min(filtered_incidents),
     p90_response |-> p90_response(filtered_incidents),
     extreme_delay_rate |-> extreme_delay_rate(filtered_incidents),
     compliance_rate |-> compliance_rate(filtered_incidents),
     above_target |-> above_target(compliance_rate(filtered_incidents))]

\* labels = ["<= 6 min", "6-8 min", "8-10 min", "> 10 min"]
labels == <<"<= 6 min", "6-8 min", "8-10 min", "> 10 min">>

\* band_counts: groupby(["IncidentGroup", "ResponseBand"], observed=True).size();
\* a row with a null type or a null band is in no group
band_counts(frame, type, band) ==
    Len(SelectSeq(frame.rows,
            LAMBDA r : r.IncidentGroup = Some(type) /\ r.ResponseBand = Some(band)))

\* band_pivot: per incident type with a counted row, the Percent of each band,
\* 100 * Count / the sum of the type's counts; bands without a row filled with 0
band_pivot(frame) ==
    [type \in {t \in IncidentTypes :
                  \E k \in 1..Len(labels) : band_counts(frame, t, labels[k]) > 0} |->
        [band \in {labels[k] : k \in 1..Len(labels)} |->
            Reduce(Rat(100 * band_counts(frame, type, band),
                       SumSeq([k \in 1..Len(labels) |->
                                  band_counts(frame, type, labels[k])])))]]

\* band_pivot has a row: some incident has a known type and a response band
HasBandRow(frame) ==
    \E k \in 1..Len(frame.rows) :
        ~IsNull(frame.rows[k].IncidentGroup) /\ ~IsNull(frame.rows[k].ResponseBand)

\* fire_df / special_df / false_df each hold a median to take the idxmax of
HasPeak(frame, type) ==
    \E k \in 1..Len(frame.rows) :
        /\ frame.rows[k].IncidentGroup = Some(type)
        /\ ~IsNull(frame.rows[k].FirstPumpArriving_AttendanceTime)

Response_Performance_Script(df, selected_year, selected_month) ==
    LET filtered_df == YearMonthFilter(df, selected_year, selected_month)
        first_pump == FirstPumpOnly(filtered_df)
        kpi == Response_Performance_KPIs(first_pump)
        objs == Response_Performance_Columns(df, first_pump)
    IN  IF EmptyCheck(filtered_df) THEN Stopped(df, filtered_df)
        ELSE IF ~HasBandRow(objs.filtered_incidents)
            THEN Raised("ValueError", objs, filtered_df,
                        [m \in DOMAIN kpi \ {"above_target"} |-> kpi[m]], NoGroups)
        ELSE IF \E type \in IncidentTypes : ~HasPeak(objs.filtered_incidents, type)
            THEN Raised("ValueError", objs, filtered_df,
                        [m \in DOMAIN kpi \ {"above_target"} |-> kpi[m]],
                        band_pivot(objs.filtered_incidents))
        ELSE Completed(objs, filtered_df, kpi, band_pivot(objs.filtered_incidents))

---------------------------------------------------------------------------
(* pages/5_Drivers_of_Response_Time.py *)

\* Feature engineering for this page on one frame: AttendanceMinutes, the
\* has_turnout / has_travel guarded TurnoutMinutes and TravelMinutes, Over6
WithDriverFeatures(frame) ==
    LET has_turnout == "TurnoutTimeSeconds" \in frame.cols
        has_travel == "TravelTimeSeconds" \in frame.cols
        f1 == WithColumn(frame, "AttendanceMinutes",
                  LAMBDA r : Minutes(r.FirstPumpArriving_AttendanceTime))
        f2 == IF has_turnout
              THEN WithColumn(f1, "TurnoutMinutes", LAMBDA r : Minutes(r.TurnoutTimeSeconds))
              ELSE f1
        f3 == IF has_travel
              THEN WithColumn(f2, "TravelMinutes", LAMBDA r : Minutes(r.TravelTimeSeconds))
              ELSE f2
    IN  WithColumn(f3, "Over6",
            LAMBDA r : CellGt(r.FirstPumpArriving_AttendanceTime, Target6minSeconds))

\* the frame objects after the feature engineering
Drivers_Columns(df, filtered_incidents) ==
    [df |-> df, filtered_incidents |-> WithDriverFeatures(filtered_incidents)]

\* the median of a minutes column, taken on the seconds it was derived from
MedianMinutes(frame, seconds_col) == RatOver(median(Column(frame, seconds_col)), 60)

\* a share that comes out as 0 when the denominator is zero
SharePct_zero(part, total) ==
    IF part.den = 0 \/ total.den = 0 THEN NaN
    ELSE IF total.num = 0 THEN Rat(0, 1)
    ELSE Rat(100 * part.num * total.den, part.den * total.num)

\* travel / (turnout + travel) * 100 on numpy floats: 0 / 0 is NaN, no exception
SharePct(part, total) ==
    IF part.den = 0 \/ total.den = 0 \/ total.num = 0 THEN NaN
    ELSE Rat(100 * part.num * total.den, part.den * total.num)

\* delayed_df: over the target, with a recorded delay code
Delayed(frame) ==
    Mask(frame,
        LAMBDA r : /\ CellGt(r.FirstPumpArriving_AttendanceTime, Target6minSeconds)
                   /\ ~IsNull(r.DelayCode_Description))

\* total_exceedances = delay_counts["IncidentCount"].sum(): the group sizes of
\* delayed_df add up to its number of rows
Drivers_total_exceedances(filtered_incidents) == Len(Delayed(filtered_incidents).rows)

\* total_component = overall_turnout + overall_travel
Drivers_total_component(filtered_incidents) ==
    RatAdd(MedianMinutes(filtered_incidents, "TurnoutTimeSeconds"),
           MedianMinutes(filtered_incidents, "TravelTimeSeconds"))

Drivers_KPIs(filtered_incidents) ==
    LET overall_turnout == MedianMinutes(filtered_incidents, "TurnoutTimeSeconds")
        overall_travel == MedianMinutes(filtered_incidents, "TravelTimeSeconds")
    IN  [overall_turnout |-> overall_turnout,
         overall_travel |-> overall_travel,
         travel_share_pct |->
             SharePct(overall_travel, Drivers_total_component(filtered_incidents))]

\* the label of the TotalMedian line in the hourly chart
TotalMedianLabel == "Total Response (median)"

\* groupby(...).agg(TurnoutMedian=("TurnoutMinutes", "median"),
\* TravelMedian=("TravelMinutes", "median")) on one group, and
\* TotalMedian = TurnoutMedian + TravelMedian
components(group) ==
    LET TurnoutMedian == MedianMinutes(group, "TurnoutTimeSeconds")
        TravelMedian == MedianMinutes(group, "TravelTimeSeconds")
    IN  [TurnoutMedian |-> TurnoutMedian, TravelMedian |-> TravelMedian,
         TotalMedian |-> RatAdd(TurnoutMedian, TravelMedian)]

\* borough_decomp: the component medians per borough (at most ten boroughs
\* here, so head(10) keeps them all)
borough_decomp(filtered_incidents) ==
    [b \in BoroughKeys(filtered_incidents) |->
        components(BoroughGroup(filtered_incidents, b))]

\* hourly_components: the component medians per HourOfCall; the chart draws
\* TotalMedian under TotalMedianLabel
hourly_components(filtered_incidents) ==
    [h \in {filtered_incidents.rows[k].HourOfCall :
                k \in 1..Len(filtered_incidents.rows)} |->
        components(Mask(filtered_incidents, LAMBDA r : r.HourOfCall = h)) @@
        [label |-> TotalMedianLabel]]

---------------------------------------------------------------------------
(* pages/Key Findings & Implications.py *)

Key_Findings_KPIs(filtered_incidents) ==
    LET median_turnout == MedianMinutes(filtered_incidents, "TurnoutTimeSeconds")
        median_travel == MedianMinutes(filtered_incidents, "TravelTimeSeconds")
        total_component == RatAdd(median_turnout, median_travel)
        total_exceedances ==
            Len(SelectSeq(filtered_incidents.rows,
                    LAMBDA r : CellGt(r.FirstPumpArriving_AttendanceTime,
                                      Target6minSeconds)))
    IN  [total_incidents |-> Rat(Len(filtered_incidents.rows), 1),
         median_response |-> median_response(filtered_incidents),
         p90_response |-> p90_response(filtered_incidents),
         compliance_6min |-> compliance_rate(filtered_incidents),
         extreme_delay_rate |-> extreme_delay_rate(filtered_incidents),
         median_turnout |-> median_turnout,
         median_travel |-> median_travel,
         \* (median_travel / total_component * 100) if total_component > 0 else nan
         travel_share |-> IF RatLt(Rat(0, 1), total_component)
                          THEN SharePct(median_travel, total_component) ELSE NaN,
         total_exceedances |-> Rat(total_exceedances, 1),
         pct_exceedances |-> Rat(100 * total_exceedances, Len(filtered_incidents.rows)),
         above_target |-> above_target(compliance_rate(filtered_incidents))]

\* incidents["IncidentGroup"].value_counts(normalize=True) * 100, then
\* .get(incident_type, 0): the share among the incidents with a recorded group
composition_pct(incidents, incident_type) ==
    LET recorded == Mask(incidents, LAMBDA r : ~IsNull(r.IncidentGroup))
    IN  IF Len(recorded.rows) = 0 THEN Rat(0, 1)
        ELSE Rat(100 * Len(SelectSeq(recorded.rows,
                               LAMBDA r : r.IncidentGroup = Some(incident_type))),
                 Len(recorded.rows))

\* incidents.groupby("IncidentGroup")["FirstPump_Within_6min"].mean() * 100,
\* then .get(incident_type, nan)
compliance_by_type(incidents, incident_type) ==
    compliance_rate(Mask(incidents, LAMBDA r : r.IncidentGroup = Some(incident_type)))

\* the figures of sections 2 and 3, computed on the incidents handed in
Key_Findings_By_Type(incidents) ==
    [pct_false_alarm |-> composition_pct(incidents, "False Alarm"),
     pct_special_service |-> composition_pct(incidents, "Special Service"),
     pct_fire |-> composition_pct(incidents, "Fire"),
     pct_non_fire |-> Reduce(RatAdd(composition_pct(incidents, "False Alarm"),
                                    composition_pct(incidents, "Special Service"))),
     comp_fa |-> compliance_by_type(incidents, "False Alarm"),
     comp_ss |-> compliance_by_type(incidents, "Special Service"),
     comp_fi |-> compliance_by_type(incidents, "Fire")]

\* all_incidents = df.sort_values("PumpOrder").drop_duplicates("IncidentNumber")
all_incidents(df) == FirstPumpOnly(df)

---------------------------------------------------------------------------
(* pages/4_Geographic_Performance.py *)

\* Data/london_boroughs/London_Borough_Excluding_MHW.shp: one row per polygon
\* with NAME, ONS_INNER and HECTARES; no incident of the datasets is in Bexley
boroughs ==
    <<[NAME |-> "Barnet", ONS_INNER |-> "F", HECTARES |-> 8700],
      [NAME |-> "Bexley", ONS_INNER |-> "F", HECTARES |-> 6400],
      [NAME |-> "Camden", ONS_INNER |-> "T", HECTARES |-> 2200]>>

\* boroughs["Area_km2"] = boroughs["HECTARES"] / 100
Area_km2(poly) == Reduce(Rat(poly.HECTARES, 100))

\* a cleaning step that leaves surrounding whitespace in place
strip_nothing(name) == name

\* str.strip(): leading and trailing whitespace removed
strip(name) ==
    CASE name = " Barnet " -> "Barnet"
      [] OTHER -> name

\* str.upper()
upper(name) ==
    CASE name = "Camden" -> "CAMDEN"
      [] name = "Barnet" -> "BARNET"
      [] name = "Bexley" -> "BEXLEY"
      [] name = "Outside" -> "OUTSIDE"
      [] OTHER -> name

\* name.str.strip().str.upper()
NAME_clean(name) == upper(strip(name))

\* the borough names of the datasets in the order groupby sorts its keys
BoroughNames == <<" Barnet ", "Barnet", "CAMDEN", "Camden", "Outside">>

\* borough_spatial_extent: per borough the median response in minutes, the
\* compliance rate and the incident count
borough_spatial_extent(filtered_incidents) ==
    [b \in BoroughKeys(filtered_incidents) |->
        LET group == BoroughGroup(filtered_incidents, b)
        IN  [MedianResponseMinutes |-> median_response(group),
             ComplianceRate |-> response_within_6min(group),
             IncidentCount |-> Rat(Len(group.rows), 1)]]

\* groupby("IncGeo_BoroughName") ... .reset_index(): one row per key, keys sorted
GroupKeys(filtered_incidents) ==
    SelectSeq(BoroughNames, LAMBDA b : b \in BoroughKeys(filtered_incidents))

\* the rows of the median aggregate with their NAME_clean column
median_by_borough(filtered_incidents) ==
    LET keys == GroupKeys(filtered_incidents)
    IN  [k \in 1..Len(keys) |->
            [IncGeo_BoroughName |-> keys[k],
             MedianResponseMinutes |->
                 median_response(BoroughGroup(filtered_incidents, keys[k])),
             NAME_clean |-> NAME_clean(keys[k])]]

\* borough_compliance: (x <= 360).mean() * 100 per borough
borough_compliance(filtered_incidents) ==
    LET keys == GroupKeys(filtered_incidents)
    IN  [k \in 1..Len(keys) |->
            [IncGeo_BoroughName |-> keys[k],
             ComplianceRate |->
                 response_within_6min(BoroughGroup(filtered_incidents, keys[k]))]]

\* a volume that counts the incidents of every spelling of the borough's name
borough_volume_by_clean_name(filtered_incidents) ==
    LET keys == GroupKeys(filtered_incidents)
    IN  [k \in 1..Len(keys) |->
            [IncGeo_BoroughName |-> keys[k],
             IncidentCount |->
                 Rat(Len(SelectSeq(filtered_incidents.rows,
                         LAMBDA r : /\ ~IsNull(r.IncGeo_BoroughName)
                                    /\ NAME_clean(r.IncGeo_BoroughName[1])
                                           = NAME_clean(keys[k]))), 1)]]

\* borough_volume: groupby(...).size()
borough_volume(filtered_incidents) ==
    LET keys == GroupKeys(filtered_incidents)
    IN  [k \in 1..Len(keys) |->
            [IncGeo_BoroughName |-> keys[k],
             IncidentCount |->
                 Rat(Len(BoroughGroup(filtered_incidents, keys[k]).rows), 1)]]

\* boroughs[["NAME_clean", "Area_km2"]]
boroughs_area ==
    [k \in 1..Len(boroughs) |->
        [NAME_clean |-> NAME_clean(boroughs[k].NAME), Area_km2 |-> Area_km2(boroughs[k])]]

\* boroughs[["NAME_clean", "ONS_INNER"]]
boroughs_ons ==
    [k \in 1..Len(boroughs) |->
        [NAME_clean |-> NAME_clean(boroughs[k].NAME),
         ONS_INNER |-> Some(boroughs[k].ONS_INNER)]]

\* left.merge(right, left_on=..., right_on=..., how=...): for every left row,
\* in order, one row per right row with the same key; with how="left" a left
\* row without a match is kept once, with nulls in the right columns
merge(left, right, left_on, right_on, how, nulls) ==
    Flatten([k \in 1..Len(left) |->
        LET matches == SelectSeq(right, LAMBDA r : r[right_on] = left[k][left_on])
        IN  IF matches = <<>>
            THEN IF how = "left" THEN <<left[k] @@ nulls>> ELSE <<>>
            ELSE [j \in 1..Len(matches) |-> left[k] @@ matches[j]]])

\* ONS_INNER.map({"T": "Inner London", "F": "Outer London"})
AreaType(ons_inner) ==
    IF ons_inner = Some("T") THEN Some("Inner London")
    ELSE IF ons_inner = Some("F") THEN Some("Outer London")
    ELSE None

\* borough_df: the aggregates joined with the area, the compliance rate, the
\* volume and the ONS classification
borough_df(filtered_incidents) ==
    LET with_area == merge(median_by_borough(filtered_incidents), boroughs_area,
                           "NAME_clean", "NAME_clean", "left", [Area_km2 |-> NaN])
        with_compliance == merge(with_area, borough_compliance(filtered_incidents),
                                 "IncGeo_BoroughName", "IncGeo_BoroughName",
                                 "inner", <<>>)
        with_volume == merge(with_compliance, borough_volume(filtered_incidents),
                             "IncGeo_BoroughName", "IncGeo_BoroughName",
                             "inner", <<>>)
        with_ons == merge(with_volume, boroughs_ons, "NAME_clean", "NAME_clean",
                          "left", [ONS_INNER |-> None])
    IN  [k \in 1..Len(with_ons) |->
            with_ons[k] @@ [AreaType |-> AreaType(with_ons[k].ONS_INNER)]]

\* borough_df[borough_df["AreaType"] == area_type]
area_df(rows, area_type) == SelectSeq(rows, LAMBDA r : r.AreaType = Some(area_type))

\* series.mean() of a float series: NaN skipped, NaN when nothing is left
mean_of(values) ==
    LET v == SelectSeq(values, LAMBDA a : ~IsNaN(a))
    IN  IF Len(v) = 0 THEN NaN ELSE Reduce(RatOver(RatSum(v), Len(v)))

\* inner_outer_summary: groupby("AreaType")["MedianResponseMinutes"].mean(),
\* rows of a null AreaType dropped by the groupby
inner_outer_summary(rows) ==
    [t \in {r.AreaType[1] : r \in {rows[k] : k \in {j \in 1..Len(rows) :
                                                    ~IsNull(rows[j].AreaType)}}} |->
        LET group == area_df(rows, t)
        IN  mean_of([k \in 1..Len(group) |-> group[k].MedianResponseMinutes])]

\* inner_value / outer_value: the summary's value of one area type
area_value(summary, area_type) == summary[area_type]

\* difference_minutes = outer_value - inner_value
difference_minutes(inner_value, outer_value) == RatSub(outer_value, inner_value)

\* percent_difference = (difference_minutes / inner_value) * 100 on numpy
\* floats: a zero inner_value gives inf or NaN (both NaN here), no exception
percent_difference(inner_value, outer_value) ==
    RatScale(RatDiv(difference_minutes(inner_value, outer_value), inner_value), 100)

\* the figures of the Inner vs Outer "Key Insights" markdown, which always
\* reads "Outer London has a higher median response time (outer_value) than
\* Inner London (inner_value)"
Geographic_Insight(summary) ==
    LET inner == area_value(summary, "Inner London")
        outer == area_value(summary, "Outer London")
    IN  [inner_value |-> inner, outer_value |-> outer,
         difference_minutes |-> difference_minutes(inner, outer),
         percent_difference |-> percent_difference(inner, outer)]

\* scipy.stats.linregress raises ValueError: empty input, or more than one
\* point and all x identical (np.amax(x) == np.amin(x) is False with a NaN in x)
linregress_raises(x) ==
    \/ Len(x) = 0
    \/ /\ Len(x) > 1
       /\ \A k \in 1..Len(x) : RatEq(x[k], x[1])

\* the slope of linregress(x, y): cov(x, y) / var(x); NaN as soon as one x or y
\* is NaN, and for a single point (0 / 0)
linregress(x, y) ==
    LET n == Len(x)
        sx == RatSum(x)
        sy == RatSum(y)
        sxy == RatSum([k \in 1..n |-> RatMul(x[k], y[k])])
        sxx == RatSum([k \in 1..n |-> RatMul(x[k], x[k])])
    IN  RatDiv(RatSub(RatScale(sxy, n), RatMul(sx, sy)),
               RatSub(RatScale(sxx, n), RatMul(sx, sx)))

\* linregress(frame["Area_km2"], frame[y_col])
area_regression(rows, y_col) ==
    linregress([k \in 1..Len(rows) |-> rows[k].Area_km2],
               [k \in 1..Len(rows) |-> rows[k][y_col]])

\* the polygons with their NAME_clean and Area_km2 columns
boroughs_clean ==
    [k \in 1..Len(boroughs) |->
        boroughs[k] @@ [NAME_clean |-> NAME_clean(boroughs[k].NAME),
                        Area_km2 |-> Area_km2(boroughs[k])]]

\* a grouped table with the cleaned borough name as the given key column
with_clean(rows, key) ==
    [k \in 1..Len(rows) |->
        [c \in (DOMAIN rows[k] \ {"IncGeo_BoroughName"}) \cup {key} |->
            IF c = key THEN NAME_clean(rows[k].IncGeo_BoroughName) ELSE rows[k][c]]]

\* the choropleth table: the freshly read polygons left-merged with the median
\* response, the compliance rate and the incident volume per borough
geographic_map(filtered_incidents) ==
    LET medians == with_clean([k \in 1..Len(median_by_borough(filtered_incidents)) |->
                                  [IncGeo_BoroughName |->
                                       median_by_borough(filtered_incidents)[k].IncGeo_BoroughName,
                                   MedianResponseMinutes |->
                                       median_by_borough(filtered_incidents)[k].MedianResponseMinutes]],
                              "IncGeo_BoroughName_clean")
        with_median == merge(boroughs_clean, medians, "NAME_clean",
                             "IncGeo_BoroughName_clean", "left",
                             [IncGeo_BoroughName_clean |-> None,
                              MedianResponseMinutes |-> NaN])
        with_compliance == merge(with_median,
                                 with_clean(borough_compliance(filtered_incidents),
                                            "NAME_clean"),
                                 "NAME_clean", "NAME_clean", "left",
                                 [ComplianceRate |-> NaN])
        with_volume == merge(with_compliance,
                             with_clean(borough_volume(filtered_incidents), "NAME_clean"),
                             "NAME_clean", "NAME_clean", "left", [IncidentCount |-> NaN])
    IN  \* boroughs.drop(columns=["IncGeo_BoroughName_clean", ...])
        [k \in 1..Len(with_volume) |->
            [c \in DOMAIN with_volume[k] \ {"IncGeo_BoroughName_clean"} |->
                with_volume[k][c]]]

\* the options of the "Select Geographic Metric" radio
metric_options == {"Median Response Time", "Response within 6 min (%)", "Incident Volume"}

\* series.astype(int) raises IntCastingNaNError on a NaN
astype_int_raises(cells) == \E k \in 1..Len(cells) : IsNaN(cells[k])

\* astype(int) of a count
astype_int(cell) == IF IsNaN(cell) THEN 0 ELSE cell.num \div cell.den

\* Select Metric: the tooltip column of the chosen metric, added to the
\* merged polygons; a NaN is written out as "nan" in front of the unit
\* (rounding is not modelled)
metric_display(map, metric_choice) ==
    [k \in 1..Len(map) |->
        map[k] @@
        (IF metric_choice = "Median Response Time"
            THEN [MedianResponse_display |->
                     [value |-> map[k].MedianResponseMinutes, unit |-> " min"]]
         ELSE IF metric_choice = "Response within 6 min (%)"
            THEN [ComplianceRate_display |->
                     [value |-> map[k].ComplianceRate, unit |-> "%"]]
         ELSE [IncidentVolume_display |-> astype_int(map[k].IncidentCount)])]

\* the Incident Volume branch dies on its astype(int)
metric_raises(map, metric_choice) ==
    /\ metric_choice = "Incident Volume"
    /\ astype_int_raises([k \in 1..Len(map) |-> map[k].IncidentCount])

\* what the page shows of its borough tables: the Inner / Outer comparison,
\* then the map under the chosen metric, then the regressions
Geographic_Tables(filtered_incidents, rows, metric_choice, with_map, with_regression) ==
    [NoTables EXCEPT
        !.borough_df = rows,
        !.inner_outer_summary = inner_outer_summary(rows),
        !.metric_choice = metric_choice,
        !.map = IF with_map
                THEN metric_display(geographic_map(filtered_incidents), metric_choice)
                ELSE <<>>,
        !.regression =
            IF with_regression
            THEN [slope |-> area_regression(rows, "MedianResponseMinutes"),
                  slope_c |-> area_regression(rows, "ComplianceRate")]
            ELSE NoKpi]

\* the script gets as far as the metric radio: it is past the empty check and
\* past the inner_value / outer_value lookups
ReachesMetricToggle(df, selected_year, selected_month, selected_incident) ==
    LET filtered_df ==
            IncidentTypeFilter(YearMonthFilter(df, selected_year, selected_month),
                               selected_incident)
        summary == inner_outer_summary(borough_df(FirstPumpOnly(filtered_df)))
    IN  /\ ~EmptyCheck(filtered_df)
        /\ "Inner London" \in DOMAIN summary
        /\ "Outer London" \in DOMAIN summary

Geographic_Performance_Script(df, selected_year, selected_month, selected_incident, metric_choice) ==
    LET filtered_df ==
            IncidentTypeFilter(YearMonthFilter(df, selected_year, selected_month),
                               selected_incident)
        objs == [df |-> df, filtered_incidents |-> FirstPumpOnly(filtered_df)]
        groups == borough_spatial_extent(objs.filtered_incidents)
        rows == borough_df(objs.filtered_incidents)
        summary == inner_outer_summary(rows)
        area == [k \in 1..Len(rows) |-> rows[k].Area_km2]
    IN  IF EmptyCheck(filtered_df) THEN Stopped(df, filtered_df)
        \* inner_value = inner_outer_summary.loc[...].values[0], then outer_value
        ELSE IF "Inner London" \notin DOMAIN summary
                \/ "Outer London" \notin DOMAIN summary
            THEN [Raised("IndexError", objs, filtered_df, NoKpi, NoGroups)
                    EXCEPT !.tables = Geographic_Tables(objs.filtered_incidents, rows,
                                                        "none", FALSE, FALSE)]
        \* boroughs["IncidentCount"].astype(int)
        ELSE IF metric_raises(geographic_map(objs.filtered_incidents), metric_choice)
            THEN [Raised("IntCastingNaNError", objs, filtered_df,
                         Geographic_Insight(summary), NoGroups)
                    EXCEPT !.tables = Geographic_Tables(objs.filtered_incidents, rows,
                                                        metric_choice, FALSE, FALSE)]
        \* linregress on borough_df, on inner_df and on outer_df
        ELSE IF \/ linregress_raises(area)
                \/ linregress_raises([k \in 1..Len(area_df(rows, "Inner London")) |->
                                         area_df(rows, "Inner London")[k].Area_km2])
                \/ linregress_raises([k \in 1..Len(area_df(rows, "Outer London")) |->
                                         area_df(rows, "Outer London")[k].Area_km2])
            THEN [Raised("ValueError", objs, filtered_df,
                         Geographic_Insight(summary), groups)
                    EXCEPT !.tables = Geographic_Tables(objs.filtered_incidents, rows,
                                                        metric_choice, TRUE, FALSE)]
        ELSE [Completed(objs, filtered_df, Geographic_Insight(summary), groups)
                EXCEPT !.tables = Geographic_Tables(objs.filtered_incidents, rows,
                                                    metric_choice, TRUE, TRUE)]

---------------------------------------------------------------------------
(* pages/5_Drivers_of_Response_Time.py: charts, map and script *)

\* borough_notheld: per borough of the exceedances with a delay code, their
\* number and the number of them that were not held up
borough_notheld(exceed_df) ==
    LET keys == GroupKeys(exceed_df)
    IN  [k \in 1..Len(keys) |->
            [NAME_clean |-> NAME_clean(keys[k]),
             Exceedances |-> Some(Len(BoroughGroup(exceed_df, keys[k]).rows)),
             NotHeldUp_Count |->
                 Some(Len(SelectSeq(BoroughGroup(exceed_df, keys[k]).rows,
                          LAMBDA r : r.DelayCode_Description = Some("Not held up"))))]]

\* series.fillna(0).astype(int)
fillna0(cell) == IF IsNull(cell) THEN 0 ELSE cell[1]

\* the map table: the freshly read polygons left-merged with borough_notheld,
\* missing values filled with 0
drivers_map(filtered_incidents) ==
    LET polygons == [k \in 1..Len(boroughs) |->
                        boroughs[k] @@ [NAME_clean |-> NAME_clean(boroughs[k].NAME)]]
        merged == merge(polygons, borough_notheld(Delayed(filtered_incidents)),
                        "NAME_clean", "NAME_clean", "left",
                        [Exceedances |-> None, NotHeldUp_Count |-> None])
    IN  [k \in 1..Len(merged) |->
            [merged[k] EXCEPT !.Exceedances = fillna0(@),
                              !.NotHeldUp_Count = fillna0(@)]]

\* the delay codes of the datasets in the order groupby sorts its keys
DelayCodeNames ==
    <<"Address incomplete/wrong", "Arrived but held up - Other reaso.", "No delay",
      "Not held up", "Traffic", "Weather conditions">>

top_n == 4

\* delay_counts: the number of delayed_df rows per delay code, sorted by
\* IncidentCount descending; codes with equal counts come out in the order the
\* sort algorithm of the build leaves them (tieRank, on the groupby position);
\* then "No delay" renamed to "No recorded delay code"
delay_counts(filtered_incidents) ==
    LET delayed_df == Delayed(filtered_incidents)
        keys == SelectSeq(DelayCodeNames,
                    LAMBDA c : \E k \in 1..Len(delayed_df.rows) :
                                   delayed_df.rows[k].DelayCode_Description = Some(c))
        counts == [k \in 1..Len(keys) |->
                      [DelayCode_Description |-> keys[k],
                       IncidentCount |->
                           Len(SelectSeq(delayed_df.rows,
                                   LAMBDA r : r.DelayCode_Description = Some(keys[k])))]]
        sorted == OrderBy(counts,
                      LAMBDA j, i :
                          \/ counts[j].IncidentCount > counts[i].IncidentCount
                          \/ /\ counts[j].IncidentCount = counts[i].IncidentCount
                             /\ tieRank[j] < tieRank[i])
    IN  [k \in 1..Len(sorted) |->
            [DelayCode_Description |->
                 IF sorted[k].DelayCode_Description = "No delay"
                 THEN "No recorded delay code" ELSE sorted[k].DelayCode_Description,
             IncidentCount |-> sorted[k].IncidentCount]]

\* top_delay = delay_counts.head(top_n)
top_delay(counts) == SubSeq(counts, 1, IF Len(counts) < top_n THEN Len(counts) ELSE top_n)

\* series.str.contains("Arrived but held up") on one description
contains_arrived(description) == description = "Arrived but held up - Other reaso."

\* others_delay: delay_counts.iloc[top_n:], then the "Arrived but held up" rows
\* of delay_counts appended and the duplicates dropped
others_delay(counts) ==
    LET appended == SubSeq(counts, top_n + 1, Len(counts)) \o
                    SelectSeq(counts, LAMBDA r : contains_arrived(r.DelayCode_Description))
    IN  AtPositions(appended,
            {i \in 1..Len(appended) :
                \A j \in 1..(i - 1) :
                    appended[j].DelayCode_Description # appended[i].DelayCode_Description})

\* IncidentCount / total_exceedances * 100 on numpy numbers: 0 / 0 is NaN
Percent(count, total) == IF total = 0 THEN NaN ELSE Reduce(Rat(100 * count, total))

\* final_delay: top_delay with its Percent column, and the "Other Delay Codes"
\* row (the bar chart sorts them by Percent; the order is not modelled)
final_delay(filtered_incidents) ==
    LET counts == delay_counts(filtered_incidents)
        total == Drivers_total_exceedances(filtered_incidents)
        top == top_delay(counts)
        others == others_delay(counts)
        others_count == SumSeq([k \in 1..Len(others) |-> others[k].IncidentCount])
    IN  [k \in 1..Len(top) |->
            top[k] @@ [Percent |-> Percent(top[k].IncidentCount, total)]] \o
        <<[DelayCode_Description |-> "Other Delay Codes",
           IncidentCount |-> others_count,
           Percent |-> Percent(others_count, total)]>>

\* the borough and hourly charts of the page, then its delay-factor chart,
\* and its map once the delay section is through
Drivers_Tables(filtered_incidents, with_delay, with_map) ==
    [NoTables EXCEPT !.borough_decomp = borough_decomp(filtered_incidents),
                     !.hourly_components = hourly_components(filtered_incidents),
                     !.final_delay = IF with_delay THEN final_delay(filtered_incidents)
                                     ELSE <<>>,
                     !.map = IF with_map THEN drivers_map(filtered_incidents) ELSE <<>>]

Drivers_Script(df, selected_year, selected_month) ==
    LET filtered_df == YearMonthFilter(df, selected_year, selected_month)
        objs == Drivers_Columns(df, FirstPumpOnly(filtered_df))
        fi == objs.filtered_incidents
    IN  IF EmptyCheck(filtered_df) THEN Stopped(df, filtered_df)
        \* overall_turnout = filtered_incidents["TurnoutMinutes"].median()
        ELSE IF "TurnoutMinutes" \notin fi.cols
            THEN Raised("KeyError", objs, filtered_df, NoKpi, NoGroups)
        \* overall_travel = filtered_incidents["TravelMinutes"].median()
        ELSE IF "TravelMinutes" \notin fi.cols
            THEN Raised("KeyError", objs, filtered_df, NoKpi, NoGroups)
        \* hourly_components.loc[hourly_components["TravelMedian"].idxmax(), ...]
        \* with no travel time recorded at all
        ELSE IF IsNaN(Drivers_KPIs(fi).overall_travel)
            THEN Raised("KeyError", objs, filtered_df, Drivers_KPIs(fi), NoGroups)
        \* delayed_df["DelayCode_Description"].notna()
        ELSE IF "DelayCode_Description" \notin fi.cols
            THEN [Raised("KeyError", objs, filtered_df, Drivers_KPIs(fi), NoGroups)
                    EXCEPT !.tables = Drivers_Tables(fi, FALSE, FALSE)]
        \* top_driver = top_delay.iloc[0]
        ELSE IF IsEmptyFrame(Delayed(fi))
            THEN [Raised("IndexError", objs, filtered_df, Drivers_KPIs(fi), NoGroups)
                    EXCEPT !.tables = Drivers_Tables(fi, TRUE, FALSE)]
        ELSE [Completed(objs, filtered_df,
                 Drivers_KPIs(fi) @@
                 [exceedances |-> Rat(Len(Delayed(fi).rows), 1),
                  pct_exceedances |-> Rat(100 * Len(Delayed(fi).rows), Len(fi.rows))],
                 NoGroups)
                EXCEPT !.tables = Drivers_Tables(fi, TRUE, TRUE)]

---------------------------------------------------------------------------
(* pages/Key Findings & Implications.py: boroughs and script *)

\* borough_stats: per borough the median attendance time (seconds) and the
\* mean of FirstPump_Within_6min * 100; .dropna() drops a borough without any
\* attendance time
borough_stats(filtered_incidents) ==
    LET keys == GroupKeys(filtered_incidents)
        rows == [k \in 1..Len(keys) |->
                    [borough |-> keys[k],
                     median_rt |-> median(Attendance(BoroughGroup(filtered_incidents, keys[k]))),
                     compliance |-> compliance_rate(BoroughGroup(filtered_incidents, keys[k]))]]
    IN  SelectSeq(rows, LAMBDA r : ~IsNaN(r.median_rt) /\ ~IsNaN(r.compliance))

\* series.idxmin(): the position of the first smallest value
idxmin(values) ==
    CHOOSE i \in 1..Len(values) :
        /\ \A j \in 1..Len(values) : RatLe(values[i], values[j])
        /\ \A j \in 1..(i - 1) : RatLt(values[i], values[j])

\* series.idxmax(): the position of the first largest value
idxmax(values) ==
    CHOOSE i \in 1..Len(values) :
        /\ \A j \in 1..Len(values) : RatLe(values[j], values[i])
        /\ \A j \in 1..(i - 1) : RatLt(values[j], values[i])

\* highest_comp_val = borough_stats["compliance"].max()
highest_comp_val(stats) ==
    stats[idxmax([k \in 1..Len(stats) |-> stats[k].compliance])].compliance

\* lowest_comp_val = borough_stats["compliance"].min()
lowest_comp_val(stats) ==
    stats[idxmin([k \in 1..Len(stats) |-> stats[k].compliance])].compliance

\* section 4: "Fastest borough: {fastest_borough}: {fastest_time} min
\* ({highest_comp_val}% compliance)", "Slowest borough: {slowest_borough}:
\* {slowest_time} min ({lowest_comp_val}% compliance)", the response time
\* spread and the compliance spread; shown if borough_available
section_4(stats) ==
    IF Len(stats) = 0 THEN NoKpi
    ELSE LET median_rt == [k \in 1..Len(stats) |-> stats[k].median_rt]
             fastest == idxmin(median_rt)
             slowest == idxmax(median_rt)
             fastest_time == RatOver(median_rt[fastest], 60)
             slowest_time == RatOver(median_rt[slowest], 60)
         IN  [fastest_borough |-> stats[fastest].borough,
              fastest_time |-> fastest_time,
              fastest_compliance |-> highest_comp_val(stats),
              slowest_borough |-> stats[slowest].borough,
              slowest_time |-> slowest_time,
              slowest_compliance |-> lowest_comp_val(stats),
              rt_spread |-> RatSub(slowest_time, fastest_time),
              compliance_spread |-> RatSub(highest_comp_val(stats),
                                           lowest_comp_val(stats))]

\* the borough figures of the page
Key_Findings_Tables(filtered_incidents) ==
    [NoTables EXCEPT !.borough_stats = borough_stats(filtered_incidents),
                     !.section_4 = section_4(borough_stats(filtered_incidents))]

Key_Findings_Script(df, selected_year, selected_month, selected_incident) ==
    LET filtered_df ==
            IncidentTypeFilter(YearMonthFilter(df, selected_year, selected_month),
                               selected_incident)
        objs == [df |-> df, filtered_incidents |-> FirstPumpOnly(filtered_df)]
    IN  IF EmptyCheck(filtered_df) THEN Stopped(df, filtered_df)
        \* median_turnout = filtered_incidents["TurnoutTimeSeconds"].median() / 60
        ELSE IF "TurnoutTimeSeconds" \notin objs.filtered_incidents.cols
            THEN Raised("KeyError", objs, filtered_df, NoKpi, NoGroups)
        \* median_travel = filtered_incidents["TravelTimeSeconds"].median() / 60
        ELSE IF "TravelTimeSeconds" \notin objs.filtered_incidents.cols
            THEN Raised("KeyError", objs, filtered_df, NoKpi, NoGroups)
        \* sections 2 and 3 are shown only without an incident-type filter
        ELSE IF selected_incident = "All"
            THEN [Completed(objs, filtered_df,
                            Key_Findings_KPIs(objs.filtered_incidents) @@
                            Key_Findings_By_Type(all_incidents(df)), NoGroups)
                    EXCEPT !.tables = Key_Findings_Tables(objs.filtered_incidents)]
        ELSE [Completed(objs, filtered_df,
                        Key_Findings_KPIs(objs.filtered_incidents), NoGroups)
                EXCEPT !.tables = Key_Findings_Tables(objs.filtered_incidents)]

---------------------------------------------------------------------------
(* A script rerun of one session *)

\* a rerun that keeps the borough tables an earlier run of the session merged
Show_keeps_tables(s, page, selected_year, selected_month, selected_incident, result) ==
    [view EXCEPT ![s] =
        [page |-> page, selected_year |-> selected_year,
         selected_month |-> selected_month,
         selected_incident |-> selected_incident,
         previous |-> view[s].outcome] @@
        [result EXCEPT !.tables = IF view[s].tables = NoTables THEN @
                                  ELSE view[s].tables]]

\* a rerun whose KPIs land in state shared by all sessions that have run
Show_shared_kpi(s, page, selected_year, selected_month, selected_incident, result) ==
    [t \in Sessions |->
        IF t = s
        THEN [page |-> page, selected_year |-> selected_year,
              selected_month |-> selected_month,
              selected_incident |-> selected_incident,
              previous |-> view[s].outcome] @@ result
        ELSE IF view[t].outcome = "none" THEN view[t]
        ELSE [view[t] EXCEPT !.kpi = result.kpi]]

\* what the session shows after the run: the selection and the script's result
Show(s, page, selected_year, selected_month, selected_incident, result) ==
    [view EXCEPT ![s] =
        [page |-> page, selected_year |-> selected_year,
         selected_month |-> selected_month,
         selected_incident |-> selected_incident,
         previous |-> view[s].outcome] @@ result]

\* the part of a rerun every page shares: df = load_data()
Rerun(s) ==
    /\ runsLeft[s] > 0
    /\ runsLeft' = [runsLeft EXCEPT ![s] = @ - 1]
    /\ cache' = CacheAfterLoad
    /\ reads' = ReadsAfterLoad
    /\ UNCHANGED <<file, tieRank>>

\* boroughs = gpd.read_file(...): the script reads the shapefile when it starts
read_file == boundaryReads' = boundaryReads + 1

Executive_Summary(s) ==
    /\ Rerun(s)
    /\ UNCHANGED boundaryReads
    /\ \E selected_year \in available_years(load_data),
          selected_month \in MonthChoices,
          selected_incident \in incident_options(load_data) :
            view' = Show(s, "Executive_Summary", selected_year, selected_month,
                         selected_incident,
                         Executive_Summary_Script(load_data, selected_year,
                             selected_month, selected_incident))

\* this page has no incident-type selectbox in the sidebar; its heatmap radio
\* is rendered, and read, only when the script gets that far
Incident_Composition(s) ==
    /\ Rerun(s)
    /\ UNCHANGED boundaryReads
    /\ \E selected_year \in available_years(load_data),
          selected_month \in MonthChoices :
        \E selected_incident_type \in
                IF ReachesHeatmap(load_data, selected_year, selected_month)
                THEN heatmap_options ELSE {"All"} :
            view' = Show(s, "Incident_Composition", selected_year, selected_month,
                         selected_incident_type,
                         Incident_Composition_Script(load_data, selected_year,
                             selected_month, selected_incident_type))

\* this page has no incident-type selectbox
Response_Performance(s) ==
    /\ Rerun(s)
    /\ UNCHANGED boundaryReads
    /\ \E selected_year \in available_years(load_data),
          selected_month \in MonthChoices :
            view' = Show(s, "Response_Performance", selected_year, selected_month,
                         "All",
                         Response_Performance_Script(load_data, selected_year,
                             selected_month))

\* the metric radio is rendered, and read, only when the script gets that far
Geographic_Performance(s) ==
    /\ Rerun(s)
    /\ read_file
    /\ \E selected_year \in available_years(load_data),
          selected_month \in MonthChoices,
          selected_incident \in incident_options(load_data) :
        \E metric_choice \in
                IF ReachesMetricToggle(load_data, selected_year, selected_month,
                                       selected_incident)
                THEN metric_options ELSE {"none"} :
            view' = Show(s, "Geographic_Performance", selected_year, selected_month,
                         selected_incident,
                         Geographic_Performance_Script(load_data, selected_year,
                             selected_month, selected_incident, metric_choice))

\* this page has no incident-type selectbox
Drivers_of_Response_Time(s) ==
    /\ Rerun(s)
    /\ read_file
    /\ \E selected_year \in available_years(load_data),
          selected_month \in MonthChoices :
            view' = Show(s, "Drivers_of_Response_Time", selected_year, selected_month,
                         "All",
                         Drivers_Script(load_data, selected_year, selected_month))

Key_Findings(s) ==
    /\ Rerun(s)
    /\ UNCHANGED boundaryReads
    /\ \E selected_year \in available_years(load_data),
          selected_month \in MonthChoices,
          selected_incident \in incident_options(load_data) :
            view' = Show(s, "Key_Findings", selected_year, selected_month,
                         selected_incident,
                         Key_Findings_Script(load_data, selected_year,
                             selected_month, selected_incident))

Next ==
    \E s \in Sessions :
        \/ Executive_Summary(s)
        \/ Incident_Composition(s)
        \/ Response_Performance(s)
        \/ Geographic_Performance(s)
        \/ Drivers_of_Response_Time(s)
        \/ Key_Findings(s)

---------------------------------------------------------------------------
(* Input datasets *)

OptionalColumns == {"TurnoutTimeSeconds", "TravelTimeSeconds", "DelayCode_Description"}

RequiredColumns ==
    {"idx", "IncidentNumber", "PumpOrder", "CallDate", "HourOfCall", "IncidentGroup",
     "IncGeo_BoroughName", "FirstPumpArriving_AttendanceTime"}

IncidentIds == <<"A1", "A2", "A3", "A4", "A5", "A6">>

\* 1 January 2021 was a Friday
BaseRow ==
    [idx |-> 0, IncidentNumber |-> "A1", PumpOrder |-> 1,
     CallDate |-> [year |-> 2021, month |-> 1, dayofweek |-> 4],
     HourOfCall |-> 12, IncidentGroup |-> Some("Fire"),
     IncGeo_BoroughName |-> Some("Camden"),
     FirstPumpArriving_AttendanceTime |-> Some(300),
     TurnoutTimeSeconds |-> Some(60), TravelTimeSeconds |-> Some(240),
     DelayCode_Description |-> None]

\* the parquet file holding the given rows under the given columns; row k gets
\* index label k
Parquet(rowseq, cols) ==
    [cols |-> cols,
     rows |-> [k \in 1..Len(rowseq) |->
                  [c \in cols |-> IF c = "idx" THEN k ELSE rowseq[k][c]]]]

AllColumns == RequiredColumns \cup OptionalColumns

SeqsUpTo(S, n) == UNION {[1..m -> S] : m \in 1..n}

Permutations1(n) == {f \in [1..n -> 1..n] : \A i, j \in 1..n : f[i] = f[j] => i = j}

Identity(n) == [i \in 1..n |-> i]

\* Mobilisation rows of two incidents, with repeated and tied pump orders
DedupRows ==
    {[BaseRow EXCEPT !.IncidentNumber = k[1], !.PumpOrder = k[2],
                     !.CallDate.year = k[3],
                     !.FirstPumpArriving_AttendanceTime =
                         IF k[1] = "A1" THEN Some(300) ELSE Some(420),
                     !.TurnoutTimeSeconds = Some(60 * k[2] + k[3] - 2021)] :
        k \in {<<"A1", 1, 2021>>, <<"A1", 2, 2021>>, <<"A1", 1, 2022>>,
               <<"A2", 1, 2021>>}}

InitDedup ==
    \E rowseq \in SeqsUpTo(DedupRows, MaxRows) :
        /\ file = Parquet(rowseq, AllColumns)
        /\ tieRank \in Permutations1(Len(rowseq))

\* Rows spread over years, months, incident groups and boroughs
FilterRows ==
    {[BaseRow EXCEPT !.CallDate.year = k[1], !.CallDate.month = k[2],
                     !.IncidentGroup = Some(k[3]),
                     !.IncGeo_BoroughName = Some(k[4])] :
        k \in {<<2021, 1, "Fire", "Camden">>,
               <<2022, 1, "Fire", "Barnet">>,
               <<2021, 2, "Fire", "Camden">>,
               <<2021, 1, "False Alarm", "Barnet">>,
               <<2022, 2, "Special Service", "Barnet">>}}

OneRowPerIncident(rowseq) ==
    [k \in 1..Len(rowseq) |-> [rowseq[k] EXCEPT !.IncidentNumber = IncidentIds[k]]]

InitFilter ==
    \E rowseq \in SeqsUpTo(FilterRows, MaxFilterRows) :
        /\ file = Parquet(OneRowPerIncident(rowseq), AllColumns)
        /\ tieRank = Identity(Len(rowseq))

\* One row per incident with attendance times around the two thresholds; the
\* incidents take the three incident groups and the two boroughs in turn
AttendanceValues == {Some(300), Some(360), Some(420), Some(600), Some(900)}

GroupInTurn == <<"Fire", "Special Service", "False Alarm">>

BoroughInTurn == <<"Camden", "Barnet">>

KpiRows(attendance) ==
    [k \in 1..Len(attendance) |->
        [BaseRow EXCEPT !.IncidentNumber = IncidentIds[k],
                        !.IncidentGroup = Some(GroupInTurn[((k - 1) % 3) + 1]),
                        !.IncGeo_BoroughName = Some(BoroughInTurn[((k - 1) % 2) + 1]),
                        !.FirstPumpArriving_AttendanceTime = attendance[k]]]

InitKpi ==
    \E attendance \in SeqsUpTo(AttendanceValues, MaxIncidents) :
        /\ file = Parquet(KpiRows(attendance), AllColumns)
        /\ tieRank = Identity(Len(attendance))

\* The same, with incidents for which no attendance time is recorded
AttendanceOrMissing == {None, Some(300), Some(360), Some(420), Some(900)}

InitMissing ==
    \E attendance \in SeqsUpTo(AttendanceOrMissing, MaxIncidents) :
        /\ file = Parquet(KpiRows(attendance), AllColumns)
        /\ tieRank = Identity(Len(attendance))

\* Files that lack some of the optional columns
ColumnRows ==
    {[BaseRow EXCEPT !.FirstPumpArriving_AttendanceTime = Some(k[1]),
                     !.DelayCode_Description = k[2]] :
        k \in {300, 420} \X {None, Some("Traffic")}}

InitColumns ==
    \E rowseq \in SeqsUpTo(ColumnRows, MaxColumnRows), optional \in SUBSET OptionalColumns :
        /\ file = Parquet(OneRowPerIncident(rowseq), RequiredColumns \cup optional)
        /\ tieRank = Identity(Len(rowseq))

\* Files whose borough names differ in case and whitespace, match no polygon,
\* or are missing
GeoRows ==
    {[BaseRow EXCEPT !.IncGeo_BoroughName = k[1],
                     !.FirstPumpArriving_AttendanceTime = Some(k[2]),
                     !.DelayCode_Description = Some("Traffic")] :
        k \in {<<Some("Camden"), 300>>, <<Some("Camden"), 420>>,
               <<Some("Barnet"), 420>>, <<Some("Barnet"), 300>>,
               <<Some("CAMDEN"), 360>>,
               <<Some(" Barnet "), 900>>, <<Some("Outside"), 600>>,
               <<None, 300>>}}

InitGeo ==
    \E rowseq \in SeqsUpTo(GeoRows, MaxGeoRows) :
        /\ file = Parquet(OneRowPerIncident(rowseq), AllColumns)
        /\ tieRank = Identity(Len(rowseq))

\* Files whose turnout and travel times vary, over two hours of call
DriverRows ==
    {[BaseRow EXCEPT !.TurnoutTimeSeconds = Some(k[1]),
                     !.TravelTimeSeconds = Some(k[2]),
                     !.FirstPumpArriving_AttendanceTime = Some(k[1] + k[2]),
                     !.HourOfCall = k[3],
                     !.DelayCode_Description = Some("Traffic")] :
        k \in {<<60, 300, 12>>, <<90, 180, 12>>, <<120, 240, 12>>,
               <<0, 0, 12>>, <<60, 240, 13>>}}

InitDrivers ==
    \E rowseq \in SeqsUpTo(DriverRows, MaxDriverRows) :
        /\ file = Parquet(OneRowPerIncident(rowseq), AllColumns)
        /\ tieRank = Identity(Len(rowseq))

\* Small files for sessions that rerun their scripts
RerunRows ==
    {[BaseRow EXCEPT !.CallDate.month = k[1],
                     !.FirstPumpArriving_AttendanceTime = Some(k[2])] :
        k \in {<<1, 300>>, <<2, 420>>}}

InitReruns ==
    \E rowseq \in SeqsUpTo(RerunRows, MaxRerunRows) :
        /\ file = Parquet(rowseq, AllColumns)
        /\ tieRank \in Permutations1(Len(rowseq))

\* One row per incident, each over the 6-minute target (the last choice
\* apart), with a delay code or none recorded; the codes are taken in
\* alphabetical order, the order of the rows making no difference to the counts
DelayChoices ==
    <<<<420, None>>, <<420, Some("Address incomplete/wrong")>>,
      <<420, Some("Arrived but held up - Other reaso.")>>, <<420, Some("No delay")>>,
      <<420, Some("Not held up")>>, <<420, Some("Traffic")>>,
      <<420, Some("Weather conditions")>>, <<300, Some("Not held up")>>>>

DelayRows(choice) ==
    [k \in 1..Len(choice) |->
        [BaseRow EXCEPT !.IncidentNumber = IncidentIds[k],
                        !.FirstPumpArriving_AttendanceTime = Some(DelayChoices[choice[k]][1]),
                        !.DelayCode_Description = DelayChoices[choice[k]][2]]]

Reversed(n) == [i \in 1..n |-> n + 1 - i]

InitDelay ==
    \E choice \in SeqsUpTo(1..Len(DelayChoices), MaxDelayRows) :
        /\ \A k \in 1..(Len(choice) - 1) : choice[k] <= choice[k + 1]
        /\ file = Parquet(DelayRows(choice), AllColumns)
        /\ tieRank \in {Identity(Len(choice)), Reversed(Len(choice))}

\* One row per incident with attendance times on and around the edges of the
\* response bands
BandValues == {Some(0), Some(360), Some(420), Some(480), Some(600), Some(900)}

InitBands ==
    \E attendance \in SeqsUpTo(BandValues, MaxBandRows) :
        /\ file = Parquet(KpiRows(attendance), AllColumns)
        /\ tieRank = Identity(Len(attendance))

Unstarted ==
    /\ cache = None
    /\ reads = 0
    /\ boundaryReads = 0
    /\ view = [s \in Sessions |-> NoView]

\* one script run, by one session
OneRun == runsLeft = [s \in Sessions |-> IF s = "s1" THEN 1 ELSE 0]

Init ==
    /\ InitDedup \/ InitFilter \/ InitKpi \/ InitMissing \/ InitColumns
    /\ Unstarted
    /\ OneRun

Spec == Init /\ [][Next]_vars

StartDedup == InitDedup /\ Unstarted /\ OneRun

SpecDedup == StartDedup /\ [][Next]_vars

StartFilter == InitFilter /\ Unstarted /\ OneRun

SpecFilter == StartFilter /\ [][Next]_vars

StartKpi == InitKpi /\ Unstarted /\ OneRun

SpecKpi == StartKpi /\ [][Next]_vars

StartMissing == InitMissing /\ Unstarted /\ OneRun

SpecMissing == StartMissing /\ [][Next]_vars

StartColumns == InitColumns /\ Unstarted /\ OneRun

SpecColumns == StartColumns /\ [][Next]_vars

StartGeo == InitGeo /\ Unstarted /\ OneRun

SpecGeo == StartGeo /\ [][Next]_vars

StartDrivers == InitDrivers /\ Unstarted /\ OneRun

StartDelay == InitDelay /\ Unstarted /\ OneRun

StartBands == InitBands /\ Unstarted /\ OneRun

SpecBands == StartBands /\ [][Next]_vars

SpecDelay == StartDelay /\ [][Next]_vars

SpecDrivers == StartDrivers /\ [][Next]_vars

\* several runs of one session, interleaved with a run of another
StartReruns ==
    /\ InitReruns
    /\ Unstarted
    /\ runsLeft = [s \in Sessions |-> IF s = "s1" THEN MaxRuns ELSE 1]

SpecReruns == StartReruns /\ [][Next]_vars

---------------------------------------------------------------------------
(* Properties *)

\* the rows of a frame restricted to the given columns, as a set
RowsOn(frame, cols) == {[c \in cols |-> frame.rows[k][c]] : k \in 1..Len(frame.rows)}

\* the run of session s got past the empty check and deduplicated
Deduplicated(s) == "dedup" \in view[s].steps

\* C1: after the deduplication there is exactly one row for every incident
\* number of the filtered set; that row is a row of the input, unchanged, and
\* its PumpOrder is the least among the filtered rows of its incident.
C1_FirstPumpPerIncident ==
    \A s \in Sessions :
        Deduplicated(s) =>
            LET fd == view[s].filtered_df.rows
                fi == view[s].filtered_incidents.rows
            IN  /\ \A k \in 1..Len(fd) :
                       Cardinality({i \in 1..Len(fi) :
                           fi[i].IncidentNumber = fd[k].IncidentNumber}) = 1
                /\ \A i \in 1..Len(fi) :
                       /\ [c \in file.cols |-> fi[i][c]] \in RowsOn(file, file.cols)
                       /\ [c \in view[s].df.cols |-> fi[i][c]]
                              \in RowsOn(view[s].filtered_df, view[s].df.cols)
                       /\ \A k \in 1..Len(fd) :
                              fd[k].IncidentNumber = fi[i].IncidentNumber
                                  => fi[i].PumpOrder <= fd[k].PumpOrder

\* a completed Executive Summary run in which an incident had several filtered
\* rows and the row kept for it is not the one that came first in the input
C1_Witness ==
    \E s \in Sessions :
        /\ view[s].page = "Executive_Summary"
        /\ view[s].outcome = "Completed"
        /\ LET fd == view[s].filtered_df.rows
               fi == view[s].filtered_incidents.rows
           IN  /\ Len(fi) < Len(fd)
               /\ \E k \in 2..Len(fd) :
                      /\ fd[k].IncidentNumber = fd[1].IncidentNumber
                      /\ fd[k].PumpOrder < fd[1].PumpOrder
                      /\ \E i \in 1..Len(fi) : fi[i].idx = fd[k].idx

\* the pages whose sidebar has the Incident Type selectbox
IncidentFilterPages == {"Executive_Summary", "Geographic_Performance", "Key_Findings"}

\* the session has run a page script
HasRun(s) == view[s].outcome # "none"

\* the record r passes the three optional predicates of the session's selection
Selected(s, r) ==
    /\ view[s].selected_year = All \/ r.CallDate.year = view[s].selected_year[1]
    /\ view[s].selected_month = "All"
           \/ MonthNames[r.CallDate.month] = view[s].selected_month
    /\ \/ view[s].page \notin IncidentFilterPages
       \/ view[s].selected_incident = "All"
       \/ r.IncidentGroup = Some(view[s].selected_incident)

\* C2: the filtered set of a run holds exactly the records of the dataset that
\* satisfy the conjunction of the year, month and incident-type predicates, in
\* the order of the dataset; a predicate whose selection is "All" removes nothing.
C2_FilterIsConjunction ==
    \A s \in Sessions :
        HasRun(s) =>
            /\ Column(view[s].filtered_df, "idx")
                   = Column(Mask(FeatureEngineering(file), LAMBDA r : Selected(s, r)), "idx")
            /\ view[s].filtered_df.rows
                   = SelectSeq(view[s].df.rows, LAMBDA r : Selected(s, r))

\* a Geographic Performance run filtered on year, month and incident type at
\* once, where each of the three predicates alone removed a record that the
\* other two admit, and a record was left
C2_Witness ==
    \E s \in Sessions :
        /\ view[s].page = "Geographic_Performance"
        /\ view[s].selected_year # All
        /\ view[s].selected_month # "All"
        /\ view[s].selected_incident # "All"
        /\ ~IsEmptyFrame(view[s].filtered_df)
        /\ \E i, j, k \in 1..Len(view[s].df.rows) :
               LET r == view[s].df.rows
               IN  /\ r[i].Year # view[s].selected_year[1]
                   /\ r[i].MonthName = view[s].selected_month
                   /\ r[i].IncidentGroup = Some(view[s].selected_incident)
                   /\ r[j].Year = view[s].selected_year[1]
                   /\ r[j].MonthName # view[s].selected_month
                   /\ r[j].IncidentGroup = Some(view[s].selected_incident)
                   /\ r[k].Year = view[s].selected_year[1]
                   /\ r[k].MonthName = view[s].selected_month
                   /\ r[k].IncidentGroup # Some(view[s].selected_incident)

\* C3: on every page a run whose selection matches no record ends with the
\* EmptyResult signal, never with an exception, and executes nothing after the
\* empty check (no deduplication, no KPI, no grouped statistic); a run whose
\* selection matches a record is not stopped by the empty check, whatever the
\* session's previous run was.
C3_EmptyResultStopsRun ==
    \A s \in Sessions :
        HasRun(s) =>
            LET matching == SelectSeq(FeatureEngineering(file).rows,
                                      LAMBDA r : Selected(s, r))
            IN  /\ view[s].outcome = "EmptyResult" <=> Len(matching) = 0
                /\ view[s].outcome = "EmptyResult" =>
                       /\ view[s].steps = {"load", "filter", "empty_check"}
                       /\ view[s].filtered_incidents = NoFrame
                       /\ view[s].kpi = NoKpi
                       /\ view[s].groups = NoGroups

\* a session whose previous run ended with EmptyResult and whose next run,
\* with another selection, went through to the end of the script
C3_Witness ==
    \E s \in Sessions :
        /\ view[s].previous = "EmptyResult"
        /\ view[s].outcome = "Completed"
        /\ view[s].kpi # NoKpi

\* C4: whenever several filtered rows of one incident share its least
\* PumpOrder, the row the deduplication retains is the one that comes first in
\* the input dataset.
C4_TiesKeepInputOrder ==
    \A s \in Sessions :
        Deduplicated(s) =>
            LET fd == view[s].filtered_df.rows
                fi == view[s].filtered_incidents.rows
            IN  \A i \in 1..Len(fi), k \in 1..Len(fd) :
                    /\ fd[k].IncidentNumber = fi[i].IncidentNumber
                    /\ fd[k].PumpOrder = fi[i].PumpOrder
                    => fi[i].idx <= fd[k].idx

\* what a run hands to the user
Outputs(s) ==
    [outcome |-> view[s].outcome, filtered_df |-> view[s].filtered_df,
     filtered_incidents |-> view[s].filtered_incidents,
     kpi |-> view[s].kpi, groups |-> view[s].groups]

SameSelection(s, t) ==
    /\ view[s].page = view[t].page
    /\ view[s].selected_year = view[t].selected_year
    /\ view[s].selected_month = view[t].selected_month
    /\ view[s].selected_incident = view[t].selected_incident

C6_LoadedDatasetUnchanged ==
    /\ cache # None => cache[1] = FeatureEngineering(file)
    /\ load_data = FeatureEngineering(file)
    /\ \A s \in Sessions : HasRun(s) => view[s].df = FeatureEngineering(file)

\* a Response Performance run and a Drivers run have assigned their columns to
\* their working frames
C6_Witness ==
    \E s, t \in Sessions :
        /\ view[s].page = "Response_Performance"
        /\ {"ResponseMinutes", "ResponseBand"} \subseteq view[s].filtered_incidents.cols
        /\ view[t].page = "Drivers_of_Response_Time"
        /\ {"AttendanceMinutes", "TurnoutMinutes", "TravelMinutes", "Over6"}
               \subseteq view[t].filtered_incidents.cols
        /\ cache # None

\* the partitions a run aggregated, each with the statistics shown for it: the
\* deduplicated incidents with the page's KPIs, and on the Geographic
\* Performance page the incidents of every borough with the borough's figures
Partitions(s) ==
    {[rows |-> view[s].filtered_incidents.rows, stats |-> view[s].kpi]}
    \cup {[rows |-> SelectSeq(view[s].filtered_incidents.rows,
                        LAMBDA r : r.IncGeo_BoroughName = Some(b)),
           stats |-> view[s].groups[b]] : b \in DOMAIN view[s].groups}

\* the positions of rows whose attendance time satisfies Test
Count(rows, Test(_)) ==
    Cardinality({i \in 1..Len(rows) :
        /\ ~IsNull(rows[i].FirstPumpArriving_AttendanceTime)
        /\ Test(rows[i].FirstPumpArriving_AttendanceTime[1])})

\* x is 100 * count / size
IsPercentage(x, count, size) == x.den # 0 /\ x.num * size = 100 * count * x.den

Times(rows) == [i \in 1..Len(rows) |-> rows[i].FirstPumpArriving_AttendanceTime]

ScenarioTimes == <<Some(300), Some(360), Some(420), Some(900)>>

ComplianceNames == {"response_within_6min", "compliance_rate", "compliance_6min", "ComplianceRate"}

\* C7: for every non-empty partition each compliance figure is 100 times the
\* number of incidents with attendance time <= 360 over the partition size,
\* and the extreme-delay rate is 100 times the number with attendance time
\* > 600 over the same size; attendance times [300, 360, 420, 900] give 50 and 25.
C7_ComplianceAndExtremeRates ==
    \A s \in Sessions : \A part \in Partitions(s) :
        Len(part.rows) > 0 =>
            /\ \A m \in ComplianceNames \cap DOMAIN part.stats :
                   /\ IsPercentage(part.stats[m],
                          Count(part.rows, LAMBDA t : t <= 360), Len(part.rows))
                   /\ Times(part.rows) = ScenarioTimes => RatEq(part.stats[m], Rat(50, 1))
            /\ "extreme_delay_rate" \in DOMAIN part.stats =>
                   /\ IsPercentage(part.stats.extreme_delay_rate,
                          Count(part.rows, LAMBDA t : t > 600), Len(part.rows))
                   /\ Times(part.rows) = ScenarioTimes
                          => RatEq(part.stats.extreme_delay_rate, Rat(25, 1))

\* the Executive Summary of the scenario [300, 360, 420, 900]: 50 and 25
C7_Witness ==
    \E s \in Sessions :
        /\ view[s].page = "Executive_Summary"
        /\ view[s].outcome = "Completed"
        /\ Times(view[s].filtered_incidents.rows) = ScenarioTimes
        /\ RatEq(view[s].kpi.response_within_6min, Rat(50, 1))
        /\ RatEq(view[s].kpi.extreme_delay_rate, Rat(25, 1))

\* the positions of rows with a recorded attendance time
Recorded(rows) ==
    {i \in 1..Len(rows) : ~IsNull(rows[i].FirstPumpArriving_AttendanceTime)}

\* x is the k-th smallest of the recorded attendance times of rows
IsOrderStatistic(x, rows, k) ==
    /\ \E i \in Recorded(rows) : rows[i].FirstPumpArriving_AttendanceTime[1] = x
    /\ Count(rows, LAMBDA t : t < x) < k
    /\ k <= Count(rows, LAMBDA t : t <= x)

\* seconds is the median of size attendance times of rows: the middle order
\* statistic for an odd size, the mean of the two central ones for an even size
IsMedianOfSize(seconds, rows, size) ==
    \E i, j \in Recorded(rows) :
        LET lo == rows[i].FirstPumpArriving_AttendanceTime[1]
            hi == rows[j].FirstPumpArriving_AttendanceTime[1]
        IN  /\ IsOrderStatistic(lo, rows, (size + 1) \div 2)
            /\ IsOrderStatistic(hi, rows, size \div 2 + 1)
            /\ RatEq(seconds, Rat(lo + hi, 2))

MedianNames == {"median_response", "MedianResponseMinutes"}

\* C8 as stated: the median is the central order statistic(s) by the size of
\* the partition, the number of its incidents.
C8_MedianByPartitionSize ==
    \A s \in Sessions : \A part \in Partitions(s) :
        Len(part.rows) > 0 =>
            \A m \in MedianNames \cap DOMAIN part.stats :
                IsMedianOfSize(RatScale(part.stats[m], 60), part.rows, Len(part.rows))

\* C8: for every non-empty partition the median attendance time is taken over
\* the incidents with a recorded attendance time: the middle order statistic
\* of these when their number is odd, the mean of the two central ones when
\* it is even, and no number when there is none; it does not depend on the
\* order of the rows, and is 390 seconds for [300, 360, 420, 900].
C8_MedianOfRecordedTimes ==
    \A s \in Sessions : \A part \in Partitions(s) :
        Len(part.rows) > 0 =>
            \A m \in MedianNames \cap DOMAIN part.stats :
                /\ Recorded(part.rows) = {} => IsNaN(part.stats[m])
                /\ Recorded(part.rows) # {} =>
                       IsMedianOfSize(RatScale(part.stats[m], 60), part.rows,
                                      Cardinality(Recorded(part.rows)))
                /\ Times(part.rows) = ScenarioTimes
                       => RatEq(RatScale(part.stats[m], 60), Rat(390, 1))

\* a completed run over four incidents, one of them without an attendance
\* time and the other three not in ascending order, whose median is the middle
\* one of the three recorded times
C8_Witness ==
    \E s \in Sessions :
        /\ view[s].page = "Executive_Summary"
        /\ view[s].outcome = "Completed"
        /\ LET rows == view[s].filtered_incidents.rows
           IN  /\ Len(rows) = 4
               /\ Cardinality(Recorded(rows)) = 3
               /\ \E i, j \in Recorded(rows) :
                      /\ i < j
                      /\ rows[i].FirstPumpArriving_AttendanceTime[1]
                             > rows[j].FirstPumpArriving_AttendanceTime[1]
                      /\ RatEq(RatScale(view[s].kpi.median_response, 60),
                               Rat(rows[j].FirstPumpArriving_AttendanceTime[1], 1))
               /\ IsMedianOfSize(RatScale(view[s].kpi.median_response, 60), rows, 3)
               /\ ~IsMedianOfSize(RatScale(view[s].kpi.median_response, 60), rows, 4)

\* the within-target figure of a page that also shows the exceeds-target one
WithinTarget(s) ==
    CASE view[s].page = "Executive_Summary" -> view[s].kpi.response_within_6min
      [] view[s].page = "Response_Performance" -> view[s].kpi.compliance_rate
      [] view[s].page = "Key_Findings" -> view[s].kpi.compliance_6min

InPercentRange(x) == RatLe(Rat(0, 1), x) /\ RatLe(x, Rat(100, 1))

\* C9: on each page that shows both, the within-target and the exceeds-target
\* percentages of a non-empty partition sum to 100 and both lie in 0..100.
C9_WithinPlusExceedsIs100 ==
    \A s \in Sessions :
        "above_target" \in DOMAIN view[s].kpi =>
            /\ RatEq(RatAdd(WithinTarget(s), view[s].kpi.above_target), Rat(100, 1))
            /\ InPercentRange(WithinTarget(s))
            /\ InPercentRange(view[s].kpi.above_target)

\* a completed Response Performance run with incidents on both sides of the
\* target
C9_Witness ==
    \E s \in Sessions :
        /\ view[s].page = "Response_Performance"
        /\ view[s].outcome = "Completed"
        /\ RatLt(Rat(0, 1), view[s].kpi.compliance_rate)
        /\ RatLt(Rat(0, 1), view[s].kpi.above_target)

\* C10: a run on a dataset that lacks an optional column does not fail on the
\* missing column; in the files explored here every travel time is recorded,
\* so a KeyError can only come from a column that is absent.
C10_NoRunFailsOnMissingColumn ==
    \A s \in Sessions :
        HasRun(s) /\ ~(OptionalColumns \subseteq file.cols)
            => view[s].outcome # "KeyError"

---------------------------------------------------------------------------
(* Boroughs of the incident data without a boundary polygon *)

\* the borough name joins a boundary polygon
HasPolygon(name) == \E k \in 1..Len(boroughs) : NAME_clean(boroughs[k].NAME) = NAME_clean(name)

\* the geographic page ran to its end in session s
GeographicCompleted(s) ==
    /\ view[s].page = "Geographic_Performance"
    /\ view[s].outcome = "Completed"

\* the rows of the borough table that have an area
WithArea(rows) == SelectSeq(rows, LAMBDA r : ~IsNaN(r.Area_km2))

\* C11: a borough of the incident data without a matching polygon has null
\* Area_km2, ONS_INNER and AreaType, and every area-based statistic (the
\* Inner / Outer averages, the area-versus-response and the
\* area-versus-compliance regression) is the one computed over the boroughs
\* with a non-null area only.
C11_UnmatchedBoroughExcluded ==
    \A s \in Sessions :
        GeographicCompleted(s) =>
            LET rows == view[s].tables.borough_df
            IN  /\ \A k \in 1..Len(rows) :
                       ~HasPolygon(rows[k].IncGeo_BoroughName) =>
                           /\ IsNaN(rows[k].Area_km2)
                           /\ IsNull(rows[k].ONS_INNER)
                           /\ IsNull(rows[k].AreaType)
                /\ view[s].tables.inner_outer_summary = inner_outer_summary(WithArea(rows))
                /\ view[s].tables.regression.slope =
                       area_regression(WithArea(rows), "MedianResponseMinutes")
                /\ view[s].tables.regression.slope_c =
                       area_regression(WithArea(rows), "ComplianceRate")

---------------------------------------------------------------------------
(* Medians of the response components *)

\* the median, in minutes, of the per-incident sums turnout + travel of a frame
MedianOfSum(frame) ==
    RatOver(median([k \in 1..Len(frame.rows) |->
                       IF IsNull(frame.rows[k].TurnoutTimeSeconds)
                          \/ IsNull(frame.rows[k].TravelTimeSeconds)
                       THEN None
                       ELSE Some(frame.rows[k].TurnoutTimeSeconds[1]
                                 + frame.rows[k].TravelTimeSeconds[1])]), 60)

\* two float values are the same number, or both NaN
SameValue(a, b) == RatEq(a, b) \/ (IsNaN(a) /\ IsNaN(b))

\* C12: a figure presented as the median total response time is the median of
\* the per-incident sums turnout + travel of its partition, never the plain
\* sum of the two component medians where these differ.
C12_MedianTotalIsMedianOfSum ==
    \A s \in Sessions :
        view[s].page = "Drivers_of_Response_Time" =>
            \A h \in DOMAIN view[s].tables.hourly_components :
                view[s].tables.hourly_components[h].label = "Total Response (median)" =>
                    SameValue(view[s].tables.hourly_components[h].TotalMedian,
                              MedianOfSum(Mask(view[s].filtered_incidents,
                                               LAMBDA r : r.HourOfCall = h)))

---------------------------------------------------------------------------
(* Travel share of response time *)

\* session s ran a page that shows the travel share, and got as far as its KPIs
ShowsTravelShare(s) ==
    \/ view[s].page = "Drivers_of_Response_Time" /\ "travel_share_pct" \in DOMAIN view[s].kpi
    \/ view[s].page = "Key_Findings" /\ "travel_share" \in DOMAIN view[s].kpi

\* the travel share the page of session s shows
TravelShare(s) ==
    IF view[s].page = "Drivers_of_Response_Time"
    THEN view[s].kpi.travel_share_pct ELSE view[s].kpi.travel_share

---------------------------------------------------------------------------
(* History independence *)

\* what a first run of the page of session s, with the selection of s, makes
\* of the dataset built from the file
FreshRun(s) ==
    LET df == FeatureEngineering(file)
        year == view[s].selected_year
        month == view[s].selected_month
        incident == view[s].selected_incident
    IN  CASE view[s].page = "Executive_Summary" ->
                Executive_Summary_Script(df, year, month, incident)
          [] view[s].page = "Incident_Composition" ->
                Incident_Composition_Script(df, year, month, incident)
          [] view[s].page = "Response_Performance" ->
                Response_Performance_Script(df, year, month)
          [] view[s].page = "Geographic_Performance" ->
                Geographic_Performance_Script(df, year, month, incident,
                                              view[s].tables.metric_choice)
          [] view[s].page = "Drivers_of_Response_Time" ->
                Drivers_Script(df, year, month)
          [] view[s].page = "Key_Findings" ->
                Key_Findings_Script(df, year, month, incident)

---------------------------------------------------------------------------
(* The dataset is loaded once *)

\* the row carries the derived values of its own CallDate and attendance time
DerivedAtLoad(r) ==
    /\ r.Year = r.CallDate.year
    /\ r.Month = r.CallDate.month
    /\ r.Month \in 1..12
    /\ r.MonthName = MonthNames[r.Month]
    /\ r.Weekday = DayNames[r.CallDate.dayofweek + 1]
    /\ r.FirstPump_Within_6min
           = (~IsNull(r.FirstPumpArriving_AttendanceTime)
              /\ r.FirstPumpArriving_AttendanceTime[1] <= 360)

\* C15: across any sequence of page runs the body of load_data (the file read
\* and the computation of Year, Month, MonthName, Weekday and the compliance
\* flag) is executed at most once, exactly once as soon as a page has run;
\* the frame every run receives carries, row for row of the file, the derived
\* values of that one load, and they are the same for all runs.
C15_DatasetLoadedOnce ==
    /\ reads <= 1
    /\ reads = 1 <=> cache # None
    /\ (\E s \in Sessions : HasRun(s)) => reads = 1
    /\ \A s \in Sessions :
           HasRun(s) =>
               /\ Len(view[s].df.rows) = Len(file.rows)
               /\ \A k \in 1..Len(file.rows) :
                      /\ DerivedAtLoad(view[s].df.rows[k])
                      /\ \A c \in file.cols : view[s].df.rows[k][c] = file.rows[k][c]
               /\ view[s].df = cache[1]

\* three runs, by two sessions, on one read of the file
C15_Witness ==
    /\ reads = 1
    /\ \A s \in Sessions : HasRun(s) /\ runsLeft[s] = 0
    /\ \E s \in Sessions : view[s].previous # "none"
    /\ Len(file.rows) > 0

---------------------------------------------------------------------------
(* The borough boundary file *)

\* C16: across any sequence of runs of the geographic and drivers pages the
\* borough boundary file is read at most once.
C16_BoundaryReadAtMostOnce == boundaryReads <= 1

---------------------------------------------------------------------------
(* Concurrent sessions *)

\* session s shows what its page script makes, on its own, of the dataset of
\* the file under the filter values of s
AsIfAlone(s) ==
    LET alone == FreshRun(s)
    IN  /\ view[s].outcome = alone.outcome
        /\ view[s].df = alone.df
        /\ view[s].filtered_df = alone.filtered_df
        /\ view[s].filtered_incidents = alone.filtered_incidents
        /\ view[s].kpi = alone.kpi
        /\ view[s].groups = alone.groups
        /\ view[s].tables = alone.tables

\* the derived columns of the loader
LoaderColumns == {"Year", "Month", "MonthName", "Weekday", "FirstPump_Within_6min"}

---------------------------------------------------------------------------
(* Matching borough names *)

\* the spellings of one borough name that differ in case and surrounding
\* whitespace only
Spellings == {{"Camden", "CAMDEN"}, {"Barnet", " Barnet "}, {"Outside"}}

SameName(a, b) == \E v \in Spellings : a \in v /\ b \in v

\* the polygons whose name is the given borough name up to case and whitespace
PolygonsOf(b) == {k \in 1..Len(boroughs) : SameName(boroughs[k].NAME, b)}

\* the exceedances with a delay code of a run whose borough is polygon k's
ExceedancesIn(s, k) ==
    Len(SelectSeq(view[s].filtered_incidents.rows,
            LAMBDA r : /\ ~IsNull(r.FirstPumpArriving_AttendanceTime)
                       /\ r.FirstPumpArriving_AttendanceTime[1] > 360
                       /\ ~IsNull(r.DelayCode_Description)
                       /\ ~IsNull(r.IncGeo_BoroughName)
                       /\ SameName(r.IncGeo_BoroughName[1], boroughs[k].NAME)))

\* the distinct borough names among those exceedances
ExceedanceNamesIn(s, k) ==
    {r.IncGeo_BoroughName[1] :
        r \in {view[s].filtered_incidents.rows[j] :
                 j \in {i \in 1..Len(view[s].filtered_incidents.rows) :
                          LET q == view[s].filtered_incidents.rows[i]
                          IN  /\ ~IsNull(q.FirstPumpArriving_AttendanceTime)
                              /\ q.FirstPumpArriving_AttendanceTime[1] > 360
                              /\ ~IsNull(q.DelayCode_Description)
                              /\ ~IsNull(q.IncGeo_BoroughName)
                              /\ SameName(q.IncGeo_BoroughName[1], boroughs[k].NAME)}}}

\* C18: a borough aggregate is joined to a polygon exactly when the two names
\* are equal up to case and surrounding whitespace. With one polygon per
\* borough the geographic page's borough table has exactly one row per borough
\* of the incidents, carrying the area and ONS flag of its polygon (nulls when
\* it has none), and the drivers page's map carries every aggregate that has a
\* polygon exactly once, on a row of that polygon.
C18_NameMatchingJoin ==
    \A s \in Sessions :
        /\ (view[s].page = "Geographic_Performance" /\ view[s].tables.borough_df # <<>>) =>
               LET rows == view[s].tables.borough_df
               IN  /\ \A b \in BoroughKeys(view[s].filtered_incidents) :
                          Cardinality({k \in 1..Len(rows) :
                                          rows[k].IncGeo_BoroughName = b}) = 1
                   /\ \A k \in 1..Len(rows) :
                          /\ rows[k].IncGeo_BoroughName
                                 \in BoroughKeys(view[s].filtered_incidents)
                          /\ IsNaN(rows[k].Area_km2)
                                 <=> PolygonsOf(rows[k].IncGeo_BoroughName) = {}
                          /\ \A p \in PolygonsOf(rows[k].IncGeo_BoroughName) :
                                 /\ RatEq(rows[k].Area_km2, Rat(boroughs[p].HECTARES, 100))
                                 /\ rows[k].ONS_INNER = Some(boroughs[p].ONS_INNER)
        /\ (view[s].page = "Drivers_of_Response_Time" /\ view[s].tables.map # <<>>) =>
               LET map == view[s].tables.map
               IN  \A p \in 1..Len(boroughs) :
                       LET at == {k \in 1..Len(map) : map[k].NAME = boroughs[p].NAME}
                           names == ExceedanceNamesIn(s, p)
                       IN  /\ Cardinality(at)
                                  = IF names = {} THEN 1 ELSE Cardinality(names)
                           /\ SumSeq([i \in 1..Cardinality(at) |->
                                         AtPositions(map, at)[i].Exceedances])
                                  = ExceedancesIn(s, p)

\* the geographic page joined " Barnet " and "CAMDEN" to their polygons and
\* left "Outside" without one
C18_Witness ==
    \E s \in Sessions :
        /\ view[s].page = "Geographic_Performance"
        /\ \E i, j, k \in 1..Len(view[s].tables.borough_df) :
               LET rows == view[s].tables.borough_df
               IN  /\ rows[i].IncGeo_BoroughName = " Barnet "
                   /\ RatEq(rows[i].Area_km2, Rat(87, 1))
                   /\ rows[j].IncGeo_BoroughName = "CAMDEN"
                   /\ rows[j].AreaType = Some("Inner London")
                   /\ rows[k].IncGeo_BoroughName = "Outside"
                   /\ IsNaN(rows[k].Area_km2)

---------------------------------------------------------------------------
(* The borough aggregate *)

\* the deduplicated incidents of the run of s recorded under borough name b
IncidentsOf(s, b) ==
    SelectSeq(view[s].filtered_incidents.rows, LAMBDA r : r.IncGeo_BoroughName = <<b>>)

\* the geographic page of s built its borough aggregate
HasBoroughAggregate(s) ==
    view[s].page = "Geographic_Performance" /\ "dedup" \in view[s].steps

\* C19: the borough aggregate has one row for each distinct borough name of
\* the deduplicated filtered incidents and no other; the row of a borough
\* holds the median response, the compliance rate and the incident count of
\* the incidents of that borough, the count being their number; the counts
\* add up to the number of deduplicated incidents that have a borough name.
C19_BoroughAggregate ==
    \A s \in Sessions :
        HasBoroughAggregate(s) =>
            LET rows == view[s].tables.borough_df
                fi == view[s].filtered_incidents.rows
                named == SelectSeq(fi, LAMBDA r : r.IncGeo_BoroughName # <<>>)
            IN  /\ {rows[k].IncGeo_BoroughName : k \in 1..Len(rows)}
                       = {named[k].IncGeo_BoroughName[1] : k \in 1..Len(named)}
                /\ \A j, k \in 1..Len(rows) :
                       rows[j].IncGeo_BoroughName = rows[k].IncGeo_BoroughName => j = k
                /\ \A k \in 1..Len(rows) :
                       LET group == IncidentsOf(s, rows[k].IncGeo_BoroughName)
                           times == [i \in 1..Len(group) |->
                                        group[i].FirstPumpArriving_AttendanceTime]
                       IN  /\ rows[k].IncidentCount = Rat(Len(group), 1)
                           /\ SameValue(rows[k].MedianResponseMinutes,
                                        RatOver(median(times), 60))
                           /\ RatEq(rows[k].ComplianceRate,
                                    Rat(100 * Len(SelectSeq(times,
                                            LAMBDA c : c # <<>> /\ c[1] <= 360)),
                                        Len(group)))
                /\ SumSeq([k \in 1..Len(rows) |-> rows[k].IncidentCount.num]) = Len(named)

\* three incidents, two of one borough and one without a borough name
C19_Witness ==
    \E s \in Sessions :
        /\ HasBoroughAggregate(s)
        /\ Len(view[s].filtered_incidents.rows) = 3
        /\ Len(view[s].tables.borough_df) = 1
        /\ view[s].tables.borough_df[1].IncidentCount = Rat(2, 1)

---------------------------------------------------------------------------
(* Key findings by incident type *)

\* the key-findings page of s showed its sections 2 and 3
ShowsByType(s) ==
    /\ view[s].page = "Key_Findings"
    /\ view[s].outcome = "Completed"
    /\ "pct_fire" \in DOMAIN view[s].kpi

\* the share, in percent, of the rows of the given incident type among rows
ShareOfType(rows, incident_type) ==
    IF Len(rows) = 0 THEN Rat(0, 1)
    ELSE Rat(100 * Len(SelectSeq(rows, LAMBDA r : r.IncidentGroup = <<incident_type>>)),
             Len(rows))

\* C20: on the key-findings page the incident-composition percentages and the
\* compliance-by-incident-type figures of sections 2 and 3 are those of the
\* currently filtered deduplicated incidents.
C20_ByTypeFiguresFollowFilters ==
    \A s \in Sessions :
        ShowsByType(s) =>
            LET fi == view[s].filtered_incidents.rows
                OfType(t) == SelectSeq(fi, LAMBDA r : r.IncidentGroup = <<t>>)
                Within(t) == SelectSeq(OfType(t), LAMBDA r : r.FirstPump_Within_6min)
                Compliance(t) == IF Len(OfType(t)) = 0 THEN NaN
                                 ELSE Rat(100 * Len(Within(t)), Len(OfType(t)))
            IN  /\ RatEq(view[s].kpi.pct_fire, ShareOfType(fi, "Fire"))
                /\ RatEq(view[s].kpi.pct_false_alarm, ShareOfType(fi, "False Alarm"))
                /\ RatEq(view[s].kpi.pct_special_service, ShareOfType(fi, "Special Service"))
                /\ SameValue(view[s].kpi.comp_fi, Compliance("Fire"))
                /\ SameValue(view[s].kpi.comp_fa, Compliance("False Alarm"))
                /\ SameValue(view[s].kpi.comp_ss, Compliance("Special Service"))

---------------------------------------------------------------------------
(* Empty sub-selections *)

\* C21: a page run that passes the empty check never dies on an empty
\* sub-selection: the composition and response pages do not end in the
\* ValueError of an idxmax over an empty series (an incident type without
\* incidents in the period), and the geographic page does not end in the
\* IndexError of .values[0] on an empty Inner London / Outer London lookup.
C21_NoFailureOnEmptyPartition ==
    \A s \in Sessions :
        /\ view[s].page \in {"Incident_Composition", "Response_Performance"}
               => view[s].outcome # "ValueError"
        /\ view[s].page = "Geographic_Performance"
               => view[s].outcome # "IndexError"

---------------------------------------------------------------------------
(* Zero denominators *)

\* a float that is exactly zero
IsZero(a) == a.den # 0 /\ a.num = 0

\* C22: in a page run that passes the empty check no displayed share is
\* computed with a zero denominator: the travel share is not divided by a zero
\* total_component, the delay-factor shares (computed once the drivers page is
\* through its charts, before top_delay.iloc[0]) are not divided by a zero
\* total_exceedances, and the Inner / Outer percent difference is not divided
\* by a zero inner_value.
C22_NoZeroDenominator ==
    \A s \in Sessions :
        /\ (/\ view[s].page = "Drivers_of_Response_Time"
            /\ "travel_share_pct" \in DOMAIN view[s].kpi)
               => ~IsZero(Drivers_total_component(view[s].filtered_incidents))
        /\ (/\ view[s].page = "Drivers_of_Response_Time"
            /\ view[s].outcome \in {"Completed", "IndexError"})
               => Drivers_total_exceedances(view[s].filtered_incidents) # 0
        /\ (/\ view[s].page = "Geographic_Performance"
            /\ "percent_difference" \in DOMAIN view[s].kpi)
               => ~IsZero(view[s].kpi.inner_value)

---------------------------------------------------------------------------
(* The year selector *)

\* C23: the selected year is "All" or a year present in the loaded dataset,
\* and a run with month and incident type both "All" never ends in the
\* empty-result stop: every selectable year leaves a non-empty filtered set.
C23_YearAloneNeverEmpty ==
    \A s \in Sessions :
        view[s].outcome # "none" =>
            /\ view[s].selected_year \in available_years(view[s].df)
            /\ (/\ view[s].selected_month = "All"
                /\ view[s].selected_incident = "All"
                /\ ~IsEmptyFrame(view[s].df))
                   => /\ view[s].outcome # "EmptyResult"
                      /\ ~IsEmptyFrame(view[s].filtered_df)

\* a single year is selected out of several, with no month and no type
\* filter, and the run is past the empty check
C23_Witness ==
    \E s \in Sessions :
        /\ view[s].selected_year # All
        /\ Cardinality(available_years(view[s].df)) > 2
        /\ view[s].selected_month = "All"
        /\ view[s].selected_incident = "All"
        /\ "dedup" \in view[s].steps
        /\ Len(view[s].filtered_df.rows) < Len(view[s].df.rows)

---------------------------------------------------------------------------
(* The map layer over boroughs without incidents *)

\* C24: on the geographic page, whatever metric is chosen on the radio, the
\* run does not die on a polygon whose borough has no incident under the
\* filter, and the map table holds a row for every boundary polygon.
C24_MapLayerForEveryPolygon ==
    \A s \in Sessions :
        (/\ view[s].page = "Geographic_Performance"
         /\ view[s].tables.metric_choice \in metric_options)
            => /\ view[s].outcome # "IntCastingNaNError"
               /\ \A k \in 1..Len(boroughs) :
                     \E j \in 1..Len(view[s].tables.map) :
                         view[s].tables.map[j].NAME = boroughs[k].NAME

---------------------------------------------------------------------------
(* The delay-factor breakdown *)

\* C25: in the delay-factor chart of a drivers-page run with at least one
\* exceedance under a recorded delay code, every such exceedance is counted
\* in exactly one bar: the incident counts of the bars add up to the number of
\* exceedances with a delay code, and the percentages to 100.
C25_DelayCategoriesPartition ==
    \A s \in Sessions :
        (/\ view[s].page = "Drivers_of_Response_Time"
         /\ view[s].outcome = "Completed")
            => LET bars == view[s].tables.final_delay
               IN  /\ SumSeq([k \in 1..Len(bars) |-> bars[k].IncidentCount])
                          = Len(Delayed(view[s].filtered_incidents).rows)
                   /\ RatEq(RatSum([k \in 1..Len(bars) |-> bars[k].Percent]),
                            Rat(100, 1))

---------------------------------------------------------------------------
(* The exceedance caption of the drivers page *)

\* C26: the caption of the drivers page, "N incidents exceeded the 6-minute
\* target (X% of total incidents)", gives the number of deduplicated filtered
\* incidents with an attendance time over 360 seconds and its share of the
\* deduplicated filtered incidents: the figures the key-findings page shows
\* for the same filtered incidents.
C26_CaptionCountsExceedances ==
    \A s \in Sessions :
        (/\ view[s].page = "Drivers_of_Response_Time"
         /\ "exceedances" \in DOMAIN view[s].kpi)
            => LET fi == view[s].filtered_incidents
                   over == SelectSeq(fi.rows,
                               LAMBDA r : CellGt(r.FirstPumpArriving_AttendanceTime,
                                                 Target6minSeconds))
               IN  /\ RatEq(view[s].kpi.exceedances, Rat(Len(over), 1))
                   /\ RatEq(view[s].kpi.pct_exceedances,
                            Rat(100 * Len(over), Len(fi.rows)))
                   /\ RatEq(view[s].kpi.exceedances,
                            Key_Findings_KPIs(fi).total_exceedances)
                   /\ RatEq(view[s].kpi.pct_exceedances,
                            Key_Findings_KPIs(fi).pct_exceedances)

---------------------------------------------------------------------------
(* The fastest and the slowest borough of the key findings *)

\* C27: in section 4 of the key-findings page the compliance printed beside
\* the fastest borough is the compliance rate of that borough, the one printed
\* beside the slowest borough is the compliance rate of that borough, and
\* neither spread is negative.
C27_BoroughComplianceBesideItsBorough ==
    \A s \in Sessions :
        (/\ view[s].page = "Key_Findings"
         /\ view[s].tables.section_4 # NoKpi)
            => LET text == view[s].tables.section_4
                   stats == view[s].tables.borough_stats
               IN  /\ \A k \in 1..Len(stats) :
                         /\ stats[k].borough = text.fastest_borough
                                => RatEq(text.fastest_compliance, stats[k].compliance)
                         /\ stats[k].borough = text.slowest_borough
                                => RatEq(text.slowest_compliance, stats[k].compliance)
                   /\ RatLe(Rat(0, 1), text.rt_spread)
                   /\ RatLe(Rat(0, 1), text.compliance_spread)

---------------------------------------------------------------------------
(* The two exceedance figures of the key findings *)

\* C28: on the key-findings page the share "exceed the target" of section 1,
\* 100 - compliance_6min, equals the pct_exceedances of section 6 (shown when
\* there is an exceedance), the incidents over 360 seconds out of all
\* filtered incidents.
C28_ExceedanceFiguresAgree ==
    \A s \in Sessions :
        (/\ view[s].page = "Key_Findings"
         /\ view[s].outcome = "Completed"
         /\ RatLt(Rat(0, 1), view[s].kpi.total_exceedances))
            => RatEq(above_target(view[s].kpi.compliance_6min),
                     view[s].kpi.pct_exceedances)

---------------------------------------------------------------------------
(* Response bands *)

\* C29: on the response-performance page every deduplicated incident is in
\* one response band and one incident-type group, so that for each incident
\* type with incidents the four band percentages add up to 100 and the
\* "<= 6 min" percentage is the type's compliance rate, the share of its
\* incidents attended within 360 seconds.
C29_BandsPartitionIncidents ==
    \A s \in Sessions :
        (/\ view[s].page = "Response_Performance"
         /\ view[s].outcome \in {"Completed", "ValueError"}
         /\ "ResponseBand" \in view[s].filtered_incidents.cols)
            => LET fi == view[s].filtered_incidents
                   band_pct == view[s].groups
               IN  /\ \A k \in 1..Len(fi.rows) :
                         /\ ~IsNull(fi.rows[k].ResponseBand)
                         /\ ~IsNull(fi.rows[k].IncidentGroup)
                   /\ \A type \in IncidentTypes :
                         HasMonthlyCount(fi, type) =>
                             /\ type \in DOMAIN band_pct
                             /\ RatEq(RatSum([k \in 1..Len(labels) |->
                                                 band_pct[type][labels[k]]]),
                                      Rat(100, 1))
                             /\ RatEq(band_pct[type]["<= 6 min"],
                                      compliance_rate(
                                          Mask(fi, LAMBDA r : r.IncidentGroup = Some(type))))

---------------------------------------------------------------------------
(* The Inner / Outer insight *)

\* C30: the geographic page prints "Outer London has a higher median response
\* time (outer_value) than Inner London (inner_value)" only with an Outer
\* London value strictly greater than the Inner London value, that is with a
\* positive difference_minutes.
C30_OuterHigherWhenStated ==
    \A s \in Sessions :
        (/\ view[s].page = "Geographic_Performance"
         /\ "outer_value" \in DOMAIN view[s].kpi)
            => /\ RatLt(view[s].kpi.inner_value, view[s].kpi.outer_value)
               /\ RatLt(Rat(0, 1), view[s].kpi.difference_minutes)

====
